---- MODULE Spec2Model ----
(***************************************************************************)
(* Verification model of the BeforeDoctor training scripts.                *)
(*                                                                         *)
(* Scores are the Python floats of the source scaled by 10^6 and kept as   *)
(* integers: every weight, multiplier and threshold of the source is a     *)
(* decimal with at most two places, so all products below are exact.       *)
(* (IEEE doubles differ from these exact values by at most a few ulp; the  *)
(* labels the thresholds assign are the same for every list of up to three *)
(* findings, which was established by enumeration of the Python code.)     *)
(***************************************************************************)
EXTENDS Integers, Sequences, FiniteSets, TLC

VARIABLES
    row,        \* the record being scored: findings, age, gender
    pyOut,      \* result of the Python scorer/classifier applied to row
    extracted,  \* result of extract_advanced_features for row
    dartOut,    \* result of the generated Dart functions applied to row
    stage,      \* position in the scoring run
    pair,       \* two scores s1 <= s2 and an age group, to be classified
    labels,     \* the labels the threshold classifier gave to the pair
    enhRow,     \* enhanced trainer: the record being labelled
    enhPy,      \* enhanced trainer: symptoms and labels of prepare_enhanced_features
    enhDart,    \* enhanced trainer: labels of the generated Dart functions
    trnScript,  \* which training script runs its per-label loop
    trnFault,   \* what the training code of each label does in this run
    trnDone,    \* the labels whose training was carried out, in order
    trnResults, \* the per-label results the script has recorded
    trnStatus,  \* "running", "returned" or "raised"
    splTrainer, \* which trainer splits the data: "nih_symptom" or "medical_qa"
    splCounts,  \* number of labelled examples of each class
    splMLFault, \* whether the ML training of the Q&A trainer raises
    splResult,  \* what the trainer returned
    orchScript, \* orchestration script of the run: "master", "robust", "simple"
    orchPc,     \* where the script is
    orchIdx,    \* position of the module loop (1-based)
    proc,       \* state of the training subprocess of each module
    scripts,    \* which training scripts exist on disk
    dirs,       \* directories under base_dir that exist
    progress,   \* the executor's self.progress
    isRunning,  \* the executor's self.is_running
    results,    \* the results dict of run_all_modules
    progressFile, \* training_progress.json on disk (Nil: no such file)
    resultsFile,  \* training_results.json on disk (Nil: no such file)
    summaryFile,  \* outputs/training_summary.json on disk (Nil: no such file)
    orchArg,    \* how the robust executor was started ("n/a" for the other scripts)
    orchLoaded, \* the completed modules load_progress found when the run began
    orchAnswer, \* what the resume prompt's input() gave ("none": not asked)
    monReport,  \* what monitor_training and check_background_status last printed
    parPc,      \* where main() of run_parallel_training.py is
    thr,        \* state of the two threads
    child,      \* state of the two training subprocesses
    parMsg,     \* outcome each thread printed
    parData,    \* jobs whose data directory exists and is not empty
    parScripts, \* jobs whose training script exists
    diskLast,    \* for each output path, the script that wrote it last ("none": no file)
    diskWriters, \* for each output path, the scripts that have written it
    agCases,        \* the ages of the cases handed to the age-group functions
    agAdvanced,     \* advanced pipeline: _get_age_group of each case
    agContinuous,   \* continuous-learning trainer: _get_age_group of each case
    agDistribution, \* NIH data processor: 'age_distribution' of the cases
    dsDriver,    \* "pipeline": run_complete_pipeline under main; "test": the test script
    dsPc,        \* position of the driver
    dsExecuted,  \* names of the steps called so far, in call order
    dsFailedAt,  \* index of the step that returned False or was interrupted (0: none)
    dsResults,   \* run_complete_pipeline's results dict, in insertion order
    dsReturn,    \* what the driver function returned ("raised": left by an exception)
    dsFiles,     \* files present in the trainer's directories
    dsExit,      \* exit status of the process
    fitData,     \* the records of the train/validation file, in file order
    fitPc,       \* position of train_enhanced_models
    fitSplit,    \* what train_test_split returned
    fitSeverity, \* the rows and labels the severity model was fitted and validated on
    fitUrgency,  \* the rows and labels the urgency model was fitted on
    fitUrgencyVal \* the rows and labels the urgency model was validated on

scorerVars == <<row, pyOut, extracted, dartOut, stage>>

classifyVars == <<pair, labels>>

enhancedVars == <<enhRow, enhPy, enhDart>>

trainVars == <<trnScript, trnFault, trnDone, trnResults, trnStatus>>

splitVars == <<splTrainer, splCounts, splMLFault, splResult>>

runVars == <<orchArg, orchLoaded, orchAnswer, monReport>>

orchVars == <<orchScript, orchPc, orchIdx, proc, scripts, dirs, progress, isRunning,
              results, progressFile, resultsFile, summaryFile, runVars>>

parVars == <<parPc, thr, child, parMsg, parData, parScripts>>

fileVars == <<diskLast, diskWriters>>

ageGroupVars == <<agCases, agAdvanced, agContinuous, agDistribution>>

diseasesVars == <<dsDriver, dsPc, dsExecuted, dsFailedAt,
                 dsResults, dsReturn, dsFiles, dsExit>>

fitVars == <<fitData, fitPc, fitSplit, fitSeverity, fitUrgency, fitUrgencyVal>>

vars ==
    <<scorerVars, classifyVars, enhancedVars, trainVars,
      splitVars, orchVars, parVars, fileVars, ageGroupVars, diseasesVars, fitVars>>

(***************************************************************************)
(* Bounds of the model                                                     *)
(***************************************************************************)
MaxFindings == 3    \* longest findings list drawn
NegAges == 1        \* ages below zero drawn (edge cases of the age tables)
MaxAge == 18        \* largest age drawn
ScoreSteps == 20    \* scores drawn for the classifier: k / ScoreSteps, k = 0..ScoreSteps
MaxCases == 2       \* longest list of cases handed to the age-group functions

\* Python None / no value yet, for variables that hold records
Nil == [nil |-> TRUE]

\* Finding strings drawn as inputs: four tracked conditions and two strings
\* of the NIH vocabulary that no table of the pipeline mentions.
FindingUniverse ==
    {"Pneumonia", "Atelectasis", "Pneumothorax", "Effusion",
     "Nodule", "No Finding"}

Genders == {"M", "F", "U"}

Ages == (0 - NegAges)..MaxAge

RECURSIVE SeqsUpTo(_, _)
SeqsUpTo(S, n) ==
    IF n = 0 THEN {<<>>}
    ELSE LET shorter == SeqsUpTo(S, n - 1)
         IN  shorter \cup {Append(s, x) : s \in {t \in shorter : Len(t) = n - 1}, x \in S}

Rows == [findings : SeqsUpTo(FindingUniverse, MaxFindings), age : Ages, gender : Genders]

(***************************************************************************)
(* advanced_nih_training_pipeline.py: clinical parameters and scorer       *)
(***************************************************************************)
Unit == 1000000     \* the float 1.0

\* x * (num / den), exact for the decimals of the source
Times(x, num, den) == (x * num) \div den

Min(a, b) == IF a <= b THEN a ELSE b

\* the key order of clinical_params['age_groups']
age_group_order == <<"infant", "toddler", "child", "adolescent">>

age_groups ==
    [infant |-> <<0, 2>>, toddler |-> <<3, 5>>, child |-> <<6, 12>>, adolescent |-> <<13, 17>>]

severity_thresholds ==
    [infant     |-> [high |-> 300000, critical |-> 600000],
     toddler    |-> [high |-> 400000, critical |-> 700000],
     child      |-> [high |-> 500000, critical |-> 800000],
     adolescent |-> [high |-> 600000, critical |-> 850000]]

respiratory_priority ==
    {"Pneumonia", "Consolidation", "Effusion", "Atelectasis",
     "Pneumothorax", "Edema", "Cardiomegaly", "Mass"}

severity_weights ==
    [Pneumonia |-> 700000, Consolidation |-> 600000, Effusion |-> 500000,
     Atelectasis |-> 400000, Pneumothorax |-> 900000, Mass |-> 800000,
     Cardiomegaly |-> 600000, Edema |-> 500000]

urgency_weights ==
    [Pneumothorax |-> 950000, Mass |-> 800000, Pneumonia |-> 700000,
     Cardiomegaly |-> 600000, Effusion |-> 500000, Consolidation |-> 600000]

\* mutant: base_score starts at 0.1 instead of 0.0
RECURSIVE SumWeightsFromBaseline(_, _)
SumWeightsFromBaseline(findings, weights) ==
    IF findings = <<>> THEN 100000
    ELSE (IF Head(findings) \in DOMAIN weights THEN weights[Head(findings)] ELSE 0)
         + SumWeightsFromBaseline(Tail(findings), weights)

\* for finding in findings: if finding in weights: base_score += weights[finding]
RECURSIVE SumWeights(_, _)
SumWeights(findings, weights) ==
    IF findings = <<>> THEN 0
    ELSE (IF Head(findings) \in DOMAIN weights THEN weights[Head(findings)] ELSE 0)
         + SumWeights(Tail(findings), weights)

\* first group, in key order, with min_age <= age <= max_age; else 'adolescent'
RECURSIVE FirstGroup(_, _)
FirstGroup(age, i) ==
    IF i > Len(age_group_order) THEN "adolescent"
    ELSE LET g == age_group_order[i]
         IN  IF age_groups[g][1] <= age /\ age <= age_groups[g][2] THEN g
             ELSE FirstGroup(age, i + 1)

get_age_group(age) == FirstGroup(age, 1)

\* mutant: the age multiplier of the severity score left out
SeverityAgeUnadjusted(base, age) == base

SeverityAgeAdjusted(base, age) ==
    IF age <= 2 THEN Times(base, 13, 10)
    ELSE IF age <= 5 THEN Times(base, 12, 10)
    ELSE IF age <= 12 THEN Times(base, 11, 10)
    ELSE base

\* mutant: the gender multiplier of the severity score left out
SeverityGenderIgnored(base, age, gender) == base

SeverityGenderAdjusted(base, age, gender) ==
    IF gender = "F" /\ age < 10 THEN Times(base, 105, 100) ELSE base

\* mutant: the final min(base_score, 1.0) forgotten
calculate_clinical_severity_unclamped(findings, age, gender) ==
    SeverityGenderAdjusted(
        SeverityAgeAdjusted(SumWeights(findings, severity_weights), age), age, gender)

calculate_clinical_severity(findings, age, gender) ==
    Min(SeverityGenderAdjusted(
            SeverityAgeAdjusted(SumWeights(findings, severity_weights), age), age, gender),
        Unit)

\* mutant: the urgency score adjusted with the age steps of the severity score
UrgencyAgeAsSeverity(base, age) ==
    IF age <= 2 THEN Times(base, 13, 10)
    ELSE IF age <= 5 THEN Times(base, 12, 10)
    ELSE IF age <= 12 THEN Times(base, 11, 10)
    ELSE base

UrgencyAgeAdjusted(base, age) ==
    IF age <= 2 THEN Times(base, 14, 10)
    ELSE IF age <= 5 THEN Times(base, 125, 100)
    ELSE base

calculate_clinical_urgency(findings, age, gender) ==
    Min(UrgencyAgeAdjusted(SumWeights(findings, urgency_weights), age), Unit)

\* mutant: the multi-condition bump (risk *= 1.1) left out
calculate_risk_score_unbumped(findings, age, gender) ==
    LET severity == calculate_clinical_severity(findings, age, gender)
        urgency  == calculate_clinical_urgency(findings, age, gender)
    IN  Min(Times(severity, 6, 10) + Times(urgency, 4, 10), Unit)

calculate_risk_score(findings, age, gender) ==
    LET severity == calculate_clinical_severity(findings, age, gender)
        urgency  == calculate_clinical_urgency(findings, age, gender)
        risk     == Times(severity, 6, 10) + Times(urgency, 4, 10)
        bumped   == IF Len(findings) > 1 THEN Times(risk, 11, 10) ELSE risk
    IN  Min(bumped, Unit)

\* mutant: the fixed 0.2 threshold tested before the age-group thresholds
classify_severity_moderate_first(score, age_group) ==
    LET thresholds == severity_thresholds[age_group]
    IN  IF score >= 200000 THEN "moderate"
        ELSE IF score >= thresholds.critical THEN "critical"
        ELSE IF score >= thresholds.high THEN "high"
        ELSE "low"

classify_severity(score, age_group) ==
    LET thresholds == severity_thresholds[age_group]
    IN  IF score >= thresholds.critical THEN "critical"
        ELSE IF score >= thresholds.high THEN "high"
        ELSE IF score >= 200000 THEN "moderate"
        ELSE "low"

\* mutant: 'routine' returned by the final else branch
classify_urgency_routine_else(score, age_group) ==
    LET thresholds == severity_thresholds[age_group]
    IN  IF score >= thresholds.critical THEN "immediate"
        ELSE IF score >= thresholds.high THEN "urgent"
        ELSE "routine"

classify_urgency(score, age_group) ==
    LET thresholds == severity_thresholds[age_group]
    IN  IF score >= thresholds.critical THEN "immediate"
        ELSE IF score >= thresholds.high THEN "urgent"
        ELSE IF score >= 300000 THEN "routine"
        ELSE "monitoring"

\* mutant: the labels of the two middle branches exchanged
classify_risk_swapped(score) ==
    IF score >= 800000 THEN "very_high"
    ELSE IF score >= 600000 THEN "moderate"
    ELSE IF score >= 400000 THEN "high"
    ELSE "low"

classify_risk(score) ==
    IF score >= 800000 THEN "very_high"
    ELSE IF score >= 600000 THEN "high"
    ELSE IF score >= 400000 THEN "moderate"
    ELSE "low"

Contains(findings, names) == \E i \in 1..Len(findings) : findings[i] \in names

get_recommendation_type(findings, severity) ==
    IF Contains(findings, {"Pneumothorax", "Mass"}) THEN "emergency"
    ELSE IF severity >= 700000 THEN "urgent_care"
    ELSE IF severity >= 400000 THEN "doctor_visit"
    ELSE "monitoring"

\* The scorer and classifier applied to one findings list, age and gender.
PythonScorer(findings, age, gender) ==
    LET sev == calculate_clinical_severity(findings, age, gender)
        urg == calculate_clinical_urgency(findings, age, gender)
        rsk == calculate_risk_score(findings, age, gender)
        grp == get_age_group(age)
    IN  [severity_score |-> sev, urgency_score |-> urg, risk_score |-> rsk,
         age_group |-> grp,
         severity |-> classify_severity(sev, grp),
         urgency  |-> classify_urgency(urg, grp),
         risk     |-> classify_risk(rsk)]

\* mutant: the scorer is handed the raw findings instead of the filtered list
RespiratoryFindingsUnfiltered(findings) == findings

\* [f for f in findings if f in respiratory_priority]
RespiratoryFindings(findings) == SelectSeq(findings, LAMBDA f : f \in respiratory_priority)

Bool01(b) == IF b THEN 1 ELSE 0

IndexOf(seq, x) == CHOOSE i \in 1..Len(seq) : seq[i] = x

\* One iteration of the row loop of extract_advanced_features.  The view
\* position column feeds one feature and no score or label; it is left out.
extract_advanced_features(r) ==
    LET findings == r.findings
        respiratory_findings == RespiratoryFindings(findings)
        age_group == get_age_group(r.age)
        severity_score == calculate_clinical_severity(respiratory_findings, r.age, r.gender)
        urgency_score  == calculate_clinical_urgency(respiratory_findings, r.age, r.gender)
        risk_score     == calculate_risk_score(respiratory_findings, r.age, r.gender)
    IN  [feature_vector |->
            <<r.age, Bool01(r.gender = "M"), IndexOf(age_group_order, age_group) - 1,
              Len(respiratory_findings),
              Bool01(Contains(findings, {"Pneumonia", "Consolidation"})),
              Bool01(Contains(findings, {"Effusion"})),
              Bool01(Contains(findings, {"Atelectasis"})),
              Bool01(Contains(findings, {"Pneumothorax", "Mass", "Cardiomegaly"})),
              severity_score, urgency_score>>,
         severity_score |-> severity_score,
         urgency_score  |-> urgency_score,
         risk_score     |-> risk_score,
         severity |-> classify_severity(severity_score, age_group),
         urgency  |-> classify_urgency(urgency_score, age_group),
         risk     |-> classify_risk(risk_score),
         recommendation_type |-> get_recommendation_type(respiratory_findings, severity_score)]

(***************************************************************************)
(* advanced_nih_training_pipeline.py: the generated Dart restatement       *)
(* (class AdvancedNIHChestXrayService)                                     *)
(***************************************************************************)
ageSpecificThresholds ==
    [infant     |-> [high |-> 300000, critical |-> 600000],
     toddler    |-> [high |-> 400000, critical |-> 700000],
     child      |-> [high |-> 500000, critical |-> 800000],
     adolescent |-> [high |-> 600000, critical |-> 850000]]

clinicalSeverityWeights ==
    [pneumonia |-> 700000, consolidation |-> 600000, effusion |-> 500000,
     atelectasis |-> 400000, pneumothorax |-> 900000, mass |-> 800000,
     cardiomegaly |-> 600000, edema |-> 500000]

clinicalUrgencyWeights ==
    [pneumothorax |-> 950000, mass |-> 800000, pneumonia |-> 700000,
     cardiomegaly |-> 600000, effusion |-> 500000, consolidation |-> 600000]

\* String.toLowerCase() on the strings of the model: the Dart tables are
\* keyed by lower-case names, the Python tables by the NIH label spelling.
LowerCaseOf ==
    [Pneumonia |-> "pneumonia", Consolidation |-> "consolidation",
     Effusion |-> "effusion", Atelectasis |-> "atelectasis",
     Pneumothorax |-> "pneumothorax", Edema |-> "edema",
     Cardiomegaly |-> "cardiomegaly", Mass |-> "mass", Nodule |-> "nodule"]

toLowerCase(s) ==
    IF s \in DOMAIN LowerCaseOf THEN LowerCaseOf[s]
    ELSE IF s = "No Finding" THEN "no finding"
    ELSE s

LowerAll(findings) == [i \in 1..Len(findings) |-> toLowerCase(findings[i])]

getAgeGroup(age) ==
    IF age <= 2 THEN "infant"
    ELSE IF age <= 5 THEN "toddler"
    ELSE IF age <= 12 THEN "child"
    ELSE "adolescent"

\* baseScore += weights[symptom] ?? 0.0
RECURSIVE SumWeightsOrZero(_, _)
SumWeightsOrZero(symptoms, weights) ==
    IF symptoms = <<>> THEN 0
    ELSE (IF Head(symptoms) \in DOMAIN weights THEN weights[Head(symptoms)] ELSE 0)
         + SumWeightsOrZero(Tail(symptoms), weights)

calculateClinicalSeverity(symptoms, age, gender) ==
    LET summed == SumWeightsOrZero(symptoms, clinicalSeverityWeights)
        aged   == IF age <= 2 THEN Times(summed, 13, 10)
                  ELSE IF age <= 5 THEN Times(summed, 12, 10)
                  ELSE IF age <= 12 THEN Times(summed, 11, 10)
                  ELSE summed
        baseScore == IF gender = "F" /\ age < 10 THEN Times(aged, 105, 100) ELSE aged
    IN  IF baseScore > Unit THEN Unit ELSE baseScore

calculateClinicalUrgency(symptoms, age, gender) ==
    LET summed == SumWeightsOrZero(symptoms, clinicalUrgencyWeights)
        baseScore == IF age <= 2 THEN Times(summed, 14, 10)
                     ELSE IF age <= 5 THEN Times(summed, 125, 100)
                     ELSE summed
    IN  IF baseScore > Unit THEN Unit ELSE baseScore

calculateRiskScore(symptoms, age, gender) ==
    LET severity == calculateClinicalSeverity(symptoms, age, gender)
        urgency  == calculateClinicalUrgency(symptoms, age, gender)
        risk     == Times(severity, 6, 10) + Times(urgency, 4, 10)
        bumped   == IF Len(symptoms) > 1 THEN Times(risk, 11, 10) ELSE risk
    IN  IF bumped > Unit THEN Unit ELSE bumped

classifySeverity(score, ageGroup) ==
    LET thresholds == ageSpecificThresholds[ageGroup]
    IN  IF score >= thresholds.critical THEN "critical"
        ELSE IF score >= thresholds.high THEN "high"
        ELSE IF score >= 200000 THEN "moderate"
        ELSE "low"

classifyUrgency(score, ageGroup) ==
    LET thresholds == ageSpecificThresholds[ageGroup]
    IN  IF score >= thresholds.critical THEN "immediate"
        ELSE IF score >= thresholds.high THEN "urgent"
        ELSE IF score >= 300000 THEN "routine"
        ELSE "monitoring"

classifyRisk(score) ==
    IF score >= 800000 THEN "very_high"
    ELSE IF score >= 600000 THEN "high"
    ELSE IF score >= 400000 THEN "moderate"
    ELSE "low"

\* The Dart scorer and classifier applied to one symptom list, age and gender
\* (the body of analyzeAdvancedRespiratorySymptoms after symptom extraction).
DartScorer(symptoms, age, gender) ==
    LET sev == calculateClinicalSeverity(symptoms, age, gender)
        urg == calculateClinicalUrgency(symptoms, age, gender)
        rsk == calculateRiskScore(symptoms, age, gender)
        grp == getAgeGroup(age)
    IN  [severity_score |-> sev, urgency_score |-> urg, risk_score |-> rsk,
         age_group |-> grp,
         severity |-> classifySeverity(sev, grp),
         urgency  |-> classifyUrgency(urg, grp),
         risk     |-> classifyRisk(rsk)]

(***************************************************************************)
(* Scoring run: one record is scored by the Python scorer, goes through    *)
(* extract_advanced_features, and is scored by the Dart restatement.       *)
(***************************************************************************)
ScorerIdle ==
    /\ row = Nil /\ pyOut = Nil /\ extracted = Nil /\ dartOut = Nil
    /\ stage = "idle"

ScorerStart ==
    /\ row \in Rows
    /\ pyOut = Nil
    /\ extracted = Nil
    /\ dartOut = Nil
    /\ stage = "input"

PyScore ==
    /\ stage = "input"
    /\ pyOut' = PythonScorer(row.findings, row.age, row.gender)
    /\ stage' = "scored"
    /\ UNCHANGED <<row, extracted, dartOut>>
    /\ UNCHANGED <<classifyVars, enhancedVars, trainVars, splitVars, orchVars, parVars, fileVars, ageGroupVars, diseasesVars, fitVars>>

ExtractAdvancedFeatures ==
    /\ stage = "scored"
    /\ extracted' = extract_advanced_features(row)
    /\ stage' = "extracted"
    /\ UNCHANGED <<row, pyOut, dartOut>>
    /\ UNCHANGED <<classifyVars, enhancedVars, trainVars, splitVars, orchVars, parVars, fileVars, ageGroupVars, diseasesVars, fitVars>>

DartScore ==
    /\ stage = "extracted"
    /\ dartOut' = DartScorer(LowerAll(row.findings), row.age, row.gender)
    /\ stage' = "restated"
    /\ UNCHANGED <<row, pyOut, extracted>>
    /\ UNCHANGED <<classifyVars, enhancedVars, trainVars, splitVars, orchVars, parVars, fileVars, ageGroupVars, diseasesVars, fitVars>>

ScorerNext == PyScore \/ ExtractAdvancedFeatures \/ DartScore

(***************************************************************************)
(* Classification run: two scores s1 <= s2 of one age group are labelled   *)
(* by _classify_severity, _classify_urgency and _classify_risk.            *)
(***************************************************************************)
Scores == {(k * Unit) \div ScoreSteps : k \in 0..ScoreSteps}

ClassifyIdle == pair = Nil /\ labels = Nil

ClassifyStart ==
    /\ pair \in {p \in [s1 : Scores, s2 : Scores, age_group : DOMAIN severity_thresholds] :
                    p.s1 <= p.s2}
    /\ labels = Nil

LabelsOf(score, age_group) ==
    [severity |-> classify_severity(score, age_group),
     urgency  |-> classify_urgency(score, age_group),
     risk     |-> classify_risk(score)]

Classify ==
    /\ pair # Nil
    /\ labels = Nil
    /\ labels' = [of1 |-> LabelsOf(pair.s1, pair.age_group),
                  of2 |-> LabelsOf(pair.s2, pair.age_group)]
    /\ UNCHANGED pair
    /\ UNCHANGED <<scorerVars, enhancedVars, trainVars, splitVars, orchVars, parVars, fileVars, ageGroupVars, diseasesVars, fitVars>>

ClassifyNext == Classify

(***************************************************************************)
(* enhanced_nih_training.py: labelling in prepare_enhanced_features and    *)
(* the generated Dart restatement (class EnhancedNIHChestXrayService)      *)
(***************************************************************************)
\* the default documentation insights, in list order
respiratory_conditions ==
    <<"pneumonia", "effusion", "atelectasis", "cardiomegaly",
      "edema", "mass", "nodule", "consolidation">>

\* `condition.lower() in finding_lower`: the respiratory conditions that
\* occur as a substring of the lower-cased finding.  No NIH label contains
\* the name of another condition, so a finding matches at most its own name.
ConditionInFinding(condition, finding) == condition = toLowerCase(finding)

\* for finding in findings: for condition in respiratory_conditions:
\*     if condition.lower() in finding_lower: symptoms.append(condition)
RECURSIVE SymptomsOf(_)
SymptomsOf(findings) ==
    IF findings = <<>> THEN <<>>
    ELSE SelectSeq(respiratory_conditions,
                   LAMBDA c : ConditionInFinding(c, Head(findings)))
         \o SymptomsOf(Tail(findings))

high_severity == {"pneumonia", "effusion", "cardiomegaly", "edema"}

medium_severity == {"atelectasis", "mass", "nodule", "consolidation"}

urgent_symptoms == {"pneumonia", "effusion", "cardiomegaly"}

\* age factors in hundredths: 1.0 / 0.8 / 0.6
UrgencyAgeFactor(age) == IF age < 5 THEN 100 ELSE IF age < 12 THEN 80 ELSE 60

PySeverityLabel(symptoms) ==
    IF Contains(symptoms, high_severity) THEN "high"
    ELSE IF Contains(symptoms, medium_severity) THEN "medium"
    ELSE "low"

PyUrgencyLabel(symptoms, age) ==
    IF Contains(symptoms, urgent_symptoms)
    THEN (IF UrgencyAgeFactor(age) > 80 THEN "urgent" ELSE "high")
    ELSE "routine"

\* one iteration of the row loop of prepare_enhanced_features (labels part)
prepare_enhanced_features(r) ==
    LET symptoms == SymptomsOf(r.findings)
    IN  [symptoms |-> symptoms,
         severity |-> PySeverityLabel(symptoms),
         urgency  |-> PyUrgencyLabel(symptoms, r.age)]

\* age factor in hundredths: 1.2 / 1.0 / 0.8
assessEnhancedSeverity(symptoms, age) ==
    LET ageFactor == IF age < 5 THEN 120 ELSE IF age < 12 THEN 100 ELSE 80
    IN  IF Contains(symptoms, {"pneumonia", "effusion", "cardiomegaly", "edema"})
        THEN (IF ageFactor > 100 THEN "high" ELSE "medium")
        ELSE IF Contains(symptoms, {"atelectasis", "mass", "nodule", "consolidation"})
        THEN "medium"
        ELSE "low"

\* ageFactor * genderFactor > 0.8, in ten-thousandths
assessEnhancedUrgency(symptoms, age, gender) ==
    LET ageFactor    == IF age < 5 THEN 100 ELSE IF age < 12 THEN 80 ELSE 60
        genderFactor == IF gender = "F" THEN 110 ELSE 100
    IN  IF Contains(symptoms, {"pneumonia", "effusion", "cardiomegaly"})
        THEN (IF ageFactor * genderFactor > 8000 THEN "urgent" ELSE "high")
        ELSE "routine"

EnhancedIdle == enhRow = Nil /\ enhPy = Nil /\ enhDart = Nil

EnhancedStart ==
    /\ enhRow \in Rows
    /\ enhPy = Nil
    /\ enhDart = Nil

PrepareEnhancedFeatures ==
    /\ enhRow # Nil
    /\ enhPy = Nil
    /\ enhPy' = prepare_enhanced_features(enhRow)
    /\ UNCHANGED <<enhRow, enhDart>>
    /\ UNCHANGED <<scorerVars, classifyVars, trainVars, splitVars, orchVars, parVars, fileVars, ageGroupVars, diseasesVars, fitVars>>

\* the Dart functions on the symptoms, age and gender of the same record
AssessEnhanced ==
    /\ enhPy # Nil
    /\ enhDart = Nil
    /\ enhDart' = [severity |-> assessEnhancedSeverity(enhPy.symptoms, enhRow.age),
                   urgency  |-> assessEnhancedUrgency(enhPy.symptoms, enhRow.age,
                                                      enhRow.gender)]
    /\ UNCHANGED <<enhRow, enhPy>>
    /\ UNCHANGED <<scorerVars, classifyVars, trainVars, splitVars, orchVars, parVars, fileVars, ageGroupVars, diseasesVars, fitVars>>

EnhancedNext == PrepareEnhancedFeatures \/ AssessEnhanced

(***************************************************************************)
(* Per-label training loops:                                               *)
(*   advanced_nih_training_pipeline.py  train_advanced_models              *)
(*   nih_chest_xray_training/train_nih_models.py  run_training_pipeline    *)
(*   train_final_models.py  train_all_models                               *)
(* What the training code of a label does is an input of the run:          *)
(*   "ok"    it trains and evaluates the model                             *)
(*   "fail"  it takes one of its own `return False` exits (no data)        *)
(*   "raise" a library call in it raises (split, encoder, fit, dump)       *)
(***************************************************************************)
AdvancedTargets == <<"severity", "urgency", "risk_score", "recommendation_type">>

NihModels == <<"symptom_model", "severity_model", "urgency_model">>

FinalModels == <<"symptom_classifier", "treatment_recommender", "risk_assessor">>

LabelsOfScript(script) ==
    IF script = "advanced" THEN AdvancedTargets
    ELSE IF script = "nih" THEN NihModels
    ELSE FinalModels

\* train_advanced_models and the train_*_model methods have no `return
\* False` exit of their own; the FinalModelTrainer methods have.
FaultsOfScript(script) ==
    IF script = "final" THEN {"ok", "fail", "raise"} ELSE {"ok", "raise"}

Range(seq) == {seq[i] : i \in 1..Len(seq)}

TrainIdle ==
    /\ trnScript = "none" /\ trnFault = Nil /\ trnDone = <<>>
    /\ trnResults = Nil /\ trnStatus = "idle"

TrainStart ==
    /\ trnScript \in {"advanced", "nih", "final"}
    /\ trnFault \in [Range(LabelsOfScript(trnScript)) -> FaultsOfScript(trnScript)]
    /\ trnDone = <<>>
    /\ trnResults = [l \in {} |-> TRUE]
    /\ trnStatus = "running"

NextLabel == LabelsOfScript(trnScript)[Len(trnDone) + 1]

MoreLabels == Len(trnDone) < Len(LabelsOfScript(trnScript))

Record(res, label, value) ==
    [l \in DOMAIN res \cup {label} |-> IF l = label THEN value ELSE res[l]]

\* One pass of `for target in [...]` in train_advanced_models.  Nothing in
\* the loop or around it catches an exception.
AdvancedTrainTarget ==
    /\ trnScript = "advanced" /\ trnStatus = "running" /\ MoreLabels
    /\ trnDone' = Append(trnDone, NextLabel)
    /\ IF trnFault[NextLabel] = "raise"
       THEN trnStatus' = "raised" /\ UNCHANGED trnResults
       ELSE trnResults' = Record(trnResults, NextLabel, TRUE) /\ UNCHANGED trnStatus
    /\ UNCHANGED <<trnScript, trnFault>>
    /\ UNCHANGED <<scorerVars, classifyVars, enhancedVars, splitVars, orchVars, parVars, fileVars, ageGroupVars, diseasesVars, fitVars>>

\* after the loop: the Flutter service and the results file are written
AdvancedFinish ==
    /\ trnScript = "advanced" /\ trnStatus = "running" /\ ~MoreLabels
    /\ trnStatus' = "returned"
    /\ UNCHANGED <<trnScript, trnFault, trnDone, trnResults>>
    /\ UNCHANGED <<scorerVars, classifyVars, enhancedVars, splitVars, orchVars, parVars, fileVars, ageGroupVars, diseasesVars, fitVars>>

\* success &= self.train_X_model(X, y): each method wraps its whole body in
\* try/except Exception and returns False from the handler.
NihTrainModel ==
    /\ trnScript = "nih" /\ trnStatus = "running" /\ MoreLabels
    /\ trnDone' = Append(trnDone, NextLabel)
    /\ trnResults' = Record(trnResults, NextLabel, trnFault[NextLabel] = "ok")
    /\ UNCHANGED <<trnScript, trnFault, trnStatus>>
    /\ UNCHANGED <<scorerVars, classifyVars, enhancedVars, splitVars, orchVars, parVars, fileVars, ageGroupVars, diseasesVars, fitVars>>

\* `if not success: return False`, else save, generate, return True
NihFinish ==
    /\ trnScript = "nih" /\ trnStatus = "running" /\ ~MoreLabels
    /\ trnStatus' = "returned"
    /\ UNCHANGED <<trnScript, trnFault, trnDone, trnResults>>
    /\ UNCHANGED <<scorerVars, classifyVars, enhancedVars, splitVars, orchVars, parVars, fileVars, ageGroupVars, diseasesVars, fitVars>>

\* results[name] = self.train_X(): a False return is recorded, an exception
\* from the training code leaves train_all_models (and main) uncaught.
FinalTrainModel ==
    /\ trnScript = "final" /\ trnStatus = "running" /\ MoreLabels
    /\ trnDone' = Append(trnDone, NextLabel)
    /\ IF trnFault[NextLabel] = "raise"
       THEN trnStatus' = "raised" /\ UNCHANGED trnResults
       ELSE /\ trnResults' = Record(trnResults, NextLabel, trnFault[NextLabel] = "ok")
            /\ UNCHANGED trnStatus
    /\ UNCHANGED <<trnScript, trnFault>>
    /\ UNCHANGED <<scorerVars, classifyVars, enhancedVars, splitVars, orchVars, parVars, fileVars, ageGroupVars, diseasesVars, fitVars>>

\* results['flutter_integration'] = self.create_flutter_integration(); summary
FinalFinish ==
    /\ trnScript = "final" /\ trnStatus = "running" /\ ~MoreLabels
    /\ trnResults' = Record(trnResults, "flutter_integration", TRUE)
    /\ trnStatus' = "returned"
    /\ UNCHANGED <<trnScript, trnFault, trnDone>>
    /\ UNCHANGED <<scorerVars, classifyVars, enhancedVars, splitVars, orchVars, parVars, fileVars, ageGroupVars, diseasesVars, fitVars>>

TrainNext ==
    \/ AdvancedTrainTarget \/ AdvancedFinish
    \/ NihTrainModel \/ NihFinish
    \/ FinalTrainModel \/ FinalFinish

(***************************************************************************)
(* Train/test split on sparse classes:                                     *)
(*   nih_chest_xray_training/train_nih_models.py  train_symptom_model      *)
(*   medical_qa_training/medical_qa_processor.py  train_models             *)
(* The input is the number of labelled examples of each class.             *)
(***************************************************************************)
Classes == {"a", "b", "c"}

\* class sizes drawn: absent, a single member, a pair, below and at
\* min_examples, and sizes that add up to 100 examples and more
CountChoices == {0, 1, 2, 4, 5, 60}

RECURSIVE SumOver(_, _)
SumOver(f, S) ==
    IF S = {} THEN 0
    ELSE LET x == CHOOSE y \in S : TRUE IN f[x] + SumOver(f, S \ {x})

Present(counts) == {c \in DOMAIN counts : counts[c] > 0}

Total(counts) == SumOver(counts, DOMAIN counts)

\* train_test_split(..., test_size=0.2, stratify=y) raises ValueError when the
\* least populated class has fewer than 2 members, or when the test or the
\* train part has fewer examples than there are classes.
StratifiedSplitRaises(counts) ==
    LET n       == Total(counts)
        n_test  == (n + 4) \div 5
        n_class == Cardinality(Present(counts))
    IN  \/ \E c \in Present(counts) : counts[c] < 2
        \/ n_test < n_class
        \/ n - n_test < n_class

\* train_symptom_model: the split is the first statement of the try block;
\* its ValueError goes to `except Exception`, which returns False.
train_symptom_model(counts) ==
    IF StratifiedSplitRaises(counts)
    THEN [type |-> "failed", split |-> "raised"]
    ELSE [type |-> "model", split |-> "stratified"]

min_examples == 5

ValidCategories(counts) == {c \in DOMAIN counts : counts[c] >= min_examples}

\* only the examples of valid categories are kept
FilteredCounts(counts) == [c \in ValidCategories(counts) |-> counts[c]]

\* train_models of the Q&A processor: rule-based model when fewer than two
\* categories have min_examples or fewer than 100 examples remain; a failed
\* stratified split is retried without stratify; any exception of the ML
\* training falls back to the rule-based model.
qa_train_models(counts, mlFault) ==
    IF Cardinality(ValidCategories(counts)) < 2
    THEN [type |-> "rule_based", split |-> "none"]
    ELSE IF Total(FilteredCounts(counts)) < 100
    THEN [type |-> "rule_based", split |-> "none"]
    ELSE LET split == IF StratifiedSplitRaises(FilteredCounts(counts))
                      THEN "simple" ELSE "stratified"
         IN  IF mlFault = "raise"
             THEN [type |-> "rule_based", split |-> split]
             ELSE [type |-> "ml_model", split |-> split]

SplitIdle ==
    /\ splTrainer = "none" /\ splCounts = Nil /\ splMLFault = "ok" /\ splResult = Nil

SplitStart ==
    /\ splTrainer \in {"nih_symptom", "medical_qa"}
    /\ splCounts \in {f \in [Classes -> CountChoices] : Total(f) > 0}
    /\ splMLFault \in (IF splTrainer = "medical_qa" THEN {"ok", "raise"} ELSE {"ok"})
    /\ splResult = Nil

TrainSymptomModel ==
    /\ splTrainer = "nih_symptom" /\ splResult = Nil
    /\ splResult' = train_symptom_model(splCounts)
    /\ UNCHANGED <<splTrainer, splCounts, splMLFault>>
    /\ UNCHANGED <<scorerVars, classifyVars, enhancedVars, trainVars, orchVars, parVars, fileVars, ageGroupVars, diseasesVars, fitVars>>

TrainQAModels ==
    /\ splTrainer = "medical_qa" /\ splResult = Nil
    /\ splResult' = qa_train_models(splCounts, splMLFault)
    /\ UNCHANGED <<splTrainer, splCounts, splMLFault>>
    /\ UNCHANGED <<scorerVars, classifyVars, enhancedVars, trainVars, orchVars, parVars, fileVars, ageGroupVars, diseasesVars, fitVars>>

SplitNext == TrainSymptomModel \/ TrainQAModels

\* ---------------------------------------------------------------------------
\* Orchestration scripts: master_training_orchestrator.py,
\* run_training_robust.py, run_training_simple.py.  Each launches the module
\* trainers as child processes.  A child is "none" before it is launched,
\* "running" between its launch and its exit, and one of the ChildExited states
\* afterwards.
\* ---------------------------------------------------------------------------

OrchScripts == {"master", "robust", "simple"}

\* MasterTrainingOrchestrator.training_modules, in dict order
MasterModules == <<"cdc", "voice", "treatment", "conversation", "risk", "diseases_symptoms">>

\* RobustTrainingExecutor.training_modules, in dict order
RobustModules == <<"cdc", "voice", "treatment">>

\* SimpleTrainingExecutor.training_modules, in dict order
SimpleModules == <<"cdc", "voice", "treatment">>

ModulesOf(script) ==
    IF script = "master" THEN MasterModules
    ELSE IF script = "robust" THEN RobustModules
    ELSE SimpleModules

\* setup_environment: shared_dirs
shared_dirs == <<"models", "processed", "outputs", "logs">>

\* Python values of the expression self.base_dir / module_name + "_training"
PyPath(p) == [type |-> "Path", value |-> p]

PyStr(s) == [type |-> "str", value |-> s]

TypeError == [type |-> "TypeError", value |-> <<>>]

\* Path.__truediv__: a Path joined with a str is a Path
PathDiv(a, b) ==
    IF a.type = "Path" /\ b.type \in {"Path", "str"}
    THEN PyPath(a.value \o <<b.value>>)
    ELSE TypeError

\* the + operator: str + str concatenates; a Path has no __add__ and a str
\* has no __radd__, so Path + str raises TypeError
PyAdd(a, b) ==
    IF a.type = "str" /\ b.type = "str"
    THEN PyStr(<<a.value, b.value>>)
    ELSE TypeError

\* setup_environment line 43; / binds tighter than +
module_dir(module_name) ==
    PyAdd(PathDiv(PyPath(<<"base_dir">>), PyStr(module_name)), PyStr("_training"))

\* setup_environment: the shared directories are made first, then the loop
\* over the modules evaluates module_dir and raises at the first TypeError
RECURSIVE SetupModuleDirs(_, _, _)
SetupModuleDirs(mods, i, made) ==
    IF i > Len(mods) THEN [raised |-> FALSE, dirs |-> made]
    ELSE IF module_dir(mods[i]).type = "TypeError" THEN [raised |-> TRUE, dirs |-> made]
    ELSE SetupModuleDirs(mods, i + 1, made \cup {module_dir(mods[i]).value})

setup_environment(existing) ==
    SetupModuleDirs(MasterModules, 1, existing \cup Range(shared_dirs))

\* trainers whose __main__ block is 'trainer.train()' with the return value
\* dropped: the interpreter exits with status 0 whether train() returned True
\* or False (diseases_symptoms_trainer.py passes it on through sys.exit)
TrainerIgnoresResult == {"cdc", "voice", "treatment"}

\* what the training script of a module does: train() returns True, train()
\* returns False (its data is missing), or the script ends with an error
TrainOutcomes == {"trained", "untrained", "crashed"}

\* the state of the child after it exits: "exit0" (status 0, trained),
\* "exit0_untrained" (status 0 although train() returned False), "exit1"
ExitState(m, outcome) ==
    IF outcome = "trained" THEN "exit0"
    ELSE IF outcome = "untrained" /\ m \in TrainerIgnoresResult THEN "exit0_untrained"
    ELSE "exit1"

\* mutant: the child is only polled, not waited for
ChildPolled(state) == state \in {"running", "exit0", "exit0_untrained", "exit1"}

\* subprocess.run / Popen.communicate return only once the child has exited
ChildExited(state) == state \in {"exit0", "exit0_untrained", "exit1"}

\* train() of the child returned True
TrainReturnedTrue(state) == state = "exit0"

\* process.returncode == 0
ReturnedZero(state) == state \in {"exit0", "exit0_untrained"}

Running == {m \in DOMAIN proc : proc[m] = "running"}

FreshProgress ==
    [completed_modules |-> <<>>, failed_modules |-> <<>>,
     current_module |-> "None", overall_progress |-> <<0, 3>>]

AppendNew(s, m) == IF m \in Range(s) THEN s ELSE Append(s, m)

\* sub-sequences of the module list, in order
RECURSIVE Keep(_, _)
Keep(s, keep) ==
    IF s = <<>> THEN <<>>
    ELSE IF Head(s) \in keep THEN <<Head(s)>> \o Keep(Tail(s), keep)
    ELSE Keep(Tail(s), keep)

\* progress files a previous run of an executor can have left, after the
\* modules in k exited with status 0 and those in f with another status; the
\* master orchestrator has no progress file
PriorProgress ==
    {Nil} \cup
    {[completed_modules |-> Keep(RobustModules, k),
      failed_modules |-> Keep(RobustModules, f),
      current_module |-> "None", overall_progress |-> <<Cardinality(k), 3>>]
        : k \in SUBSET Range(RobustModules),
          f \in SUBSET Range(RobustModules) \ {Range(RobustModules)}}

\* save_final_results of an earlier run of the robust executor in which every
\* module completed; no executor removes training_results.json
StaleResults ==
    [completed |-> RobustModules, failed |-> <<>>,
     total_modules |-> Len(RobustModules),
     success_rate |-> <<Len(RobustModules), Len(RobustModules)>>,
     written_by |-> "earlier run"]

PriorResults == {Nil, StaleResults}

\* what monitor_training and check_background_status last printed
NoReport == [monitor |-> "none", status |-> "none"]

OrchIdle ==
    /\ orchScript = "none" /\ orchPc = "none" /\ orchIdx = 0
    /\ proc = <<>> /\ scripts = {} /\ dirs = {}
    /\ progress = Nil /\ isRunning = FALSE /\ results = Nil
    /\ progressFile = Nil /\ resultsFile = Nil /\ summaryFile = Nil
    /\ orchArg = "n/a" /\ orchLoaded = {} /\ orchAnswer = "none" /\ monReport = NoReport

OrchStart ==
    /\ orchScript \in OrchScripts
    /\ orchPc = "start"
    /\ orchIdx = 1
    /\ proc = [m \in Range(ModulesOf(orchScript)) |-> "none"]
    /\ scripts \in SUBSET Range(ModulesOf(orchScript))
    /\ dirs \in (IF orchScript = "master" THEN {{}, Range(shared_dirs)} ELSE {{}})
    /\ progress = Nil
    /\ isRunning = FALSE
    /\ results = Nil
    /\ progressFile \in (IF orchScript = "master" THEN {Nil} ELSE PriorProgress)
    /\ resultsFile \in (IF orchScript = "master" THEN {Nil} ELSE PriorResults)
    /\ summaryFile = Nil
    /\ orchArg = "n/a"
    /\ orchLoaded = {}
    /\ orchAnswer = "none"
    /\ monReport = NoReport

\* the training child of module m exits; a child whose script does not exist
\* can only end with an error
ChildExit ==
    \E m \in DOMAIN proc, outcome \in TrainOutcomes :
        /\ proc[m] = "running"
        /\ outcome # "crashed" => m \in scripts
        /\ proc' = [proc EXCEPT ![m] = ExitState(m, outcome)]
        /\ UNCHANGED <<orchScript, orchPc, orchIdx, scripts, dirs, progress, isRunning,
                       results, progressFile, resultsFile, summaryFile>>
        /\ UNCHANGED <<scorerVars, classifyVars, enhancedVars, trainVars, splitVars, parVars, fileVars, ageGroupVars, diseasesVars, fitVars>>
        /\ UNCHANGED runVars

\* --- master_training_orchestrator.py ---------------------------------------

\* MasterTrainingOrchestrator.__init__
MasterConstruct ==
    /\ orchScript = "master" /\ orchPc = "start"
    /\ results' = <<>>
    /\ orchPc' = "idle"
    /\ UNCHANGED <<orchScript, orchIdx, proc, scripts, dirs, progress, isRunning,
                   progressFile, resultsFile, summaryFile>>
    /\ UNCHANGED <<scorerVars, classifyVars, enhancedVars, trainVars, splitVars, parVars, fileVars, ageGroupVars, diseasesVars, fitVars>>
    /\ UNCHANGED runVars

\* run_all_training_modules: setup_environment is called outside any try, so
\* an exception it raises ends the run before the module loop and before
\* generate_training_summary
MasterRunAllTrainingModules ==
    /\ orchScript = "master" /\ orchPc = "idle"
    /\ LET env == setup_environment(dirs) IN
        /\ dirs' = env.dirs
        /\ env.raised
        /\ orchPc' = "crashed"
    /\ UNCHANGED <<orchScript, orchIdx, proc, scripts, progress, isRunning,
                   results, progressFile, resultsFile, summaryFile>>
    /\ UNCHANGED <<scorerVars, classifyVars, enhancedVars, trainVars, splitVars, parVars, fileVars, ageGroupVars, diseasesVars, fitVars>>
    /\ UNCHANGED runVars

\* run_training_module(module_name), called on its own: the script is missing
\* and the call returns False without an entry in self.results
MasterModuleNotFound ==
    \E i \in 1..Len(MasterModules) :
        /\ orchScript = "master" /\ orchPc = "idle"
        /\ MasterModules[i] \notin scripts
        /\ orchIdx' = i
        /\ UNCHANGED <<orchScript, orchPc, proc, scripts, dirs, progress, isRunning,
                       results, progressFile, resultsFile, summaryFile>>
        /\ UNCHANGED <<scorerVars, classifyVars, enhancedVars, trainVars, splitVars, parVars, fileVars, ageGroupVars, diseasesVars, fitVars>>
        /\ UNCHANGED runVars

\* run_training_module(module_name): subprocess.run starts the child
MasterLaunch ==
    \E i \in 1..Len(MasterModules) :
        /\ orchScript = "master" /\ orchPc = "idle"
        /\ MasterModules[i] \in scripts
        /\ orchIdx' = i
        /\ proc' = [proc EXCEPT ![MasterModules[i]] = "running"]
        /\ orchPc' = "waiting"
        /\ UNCHANGED <<orchScript, scripts, dirs, progress, isRunning,
                       results, progressFile, resultsFile, summaryFile>>
        /\ UNCHANGED <<scorerVars, classifyVars, enhancedVars, trainVars, splitVars, parVars, fileVars, ageGroupVars, diseasesVars, fitVars>>
        /\ UNCHANGED runVars

\* run_training_module(module_name): subprocess.run returns and the status is
\* stored in self.results
MasterReap ==
    /\ orchScript = "master" /\ orchPc = "waiting"
    /\ LET m == MasterModules[orchIdx] IN
        /\ ChildExited(proc[m])
        /\ results' = (m :> (IF ReturnedZero(proc[m]) THEN "success" ELSE "failed")) @@ results
    /\ orchPc' = "idle"
    /\ UNCHANGED <<orchScript, orchIdx, proc, scripts, dirs, progress, isRunning,
                   progressFile, resultsFile, summaryFile>>
    /\ UNCHANGED <<scorerVars, classifyVars, enhancedVars, trainVars, splitVars, parVars, fileVars, ageGroupVars, diseasesVars, fitVars>>
    /\ UNCHANGED runVars

\* number of entries of self.results with the given status
StatusCount(res, status) == Cardinality({m \in DOMAIN res : res[m] = status})

\* generate_training_summary, called after the calls of run_training_module
\* as the last step of a caller that does without setup_environment: the
\* counts are taken over the entries of self.results, total_modules over
\* training_modules; open() raises and nothing is written while the outputs
\* directory does not exist
MasterGenerateTrainingSummary ==
    /\ orchScript = "master" /\ orchPc = "idle"
    /\ "outputs" \in dirs
    /\ summaryFile' = [total_modules |-> Len(MasterModules),
                        successful_modules |-> StatusCount(results, "success"),
                        failed_modules |-> StatusCount(results, "failed"),
                        error_modules |-> StatusCount(results, "error")]
    /\ orchPc' = "summarised"
    /\ UNCHANGED <<orchScript, orchIdx, proc, scripts, dirs, progress, isRunning,
                   results, progressFile, resultsFile>>
    /\ UNCHANGED <<scorerVars, classifyVars, enhancedVars, trainVars, splitVars, parVars, fileVars, ageGroupVars, diseasesVars, fitVars>>
    /\ UNCHANGED runVars

\* --- run_training_robust.py ------------------------------------------------

\* command-line forms of main(): no argument, --resume, --fresh, anything else
RobustArgs == {"none", "--resume", "--fresh", "other"}

\* load_progress: the file's content if there is one, a fresh record otherwise
load_progress(file) == IF file # Nil THEN file ELSE FreshProgress

\* main() up to the call of run_all_modules: the constructor loads the
\* progress and installs the signal handlers, then the argument is handled;
\* --fresh unlinks the progress file after it was loaded
RobustMain ==
    \E arg \in RobustArgs :
        /\ orchScript = "robust" /\ orchPc = "start"
        /\ progress' = load_progress(progressFile)
        /\ orchLoaded' = Range(load_progress(progressFile).completed_modules)
        /\ orchArg' = arg
        /\ isRunning' = TRUE
        /\ dirs' = dirs \cup {"logs"}
        /\ progressFile' = IF arg = "--fresh" THEN Nil ELSE progressFile
        /\ orchPc' = IF arg = "other" THEN "exited" ELSE "prompt"
        /\ UNCHANGED <<orchScript, orchIdx, proc, scripts, results, resultsFile, summaryFile>>
        /\ UNCHANGED <<scorerVars, classifyVars, enhancedVars, trainVars, splitVars, parVars, fileVars, ageGroupVars, diseasesVars, fitVars>>
        /\ UNCHANGED <<orchAnswer, monReport>>

\* main() of background_training.py, the script that run_training_background.py
\* and run_training_background_windows.py generate and start detached: the
\* executor is constructed and run_all_modules is called, without arguments
BackgroundMain ==
    /\ orchScript = "robust" /\ orchPc = "start"
    /\ progress' = load_progress(progressFile)
    /\ orchLoaded' = Range(load_progress(progressFile).completed_modules)
    /\ orchArg' = "background"
    /\ isRunning' = TRUE
    /\ dirs' = dirs \cup {"logs"}
    /\ orchPc' = "prompt"
    /\ UNCHANGED <<orchScript, orchIdx, proc, scripts, results, progressFile, resultsFile, summaryFile>>
    /\ UNCHANGED <<scorerVars, classifyVars, enhancedVars, trainVars, splitVars, parVars, fileVars, ageGroupVars, diseasesVars, fitVars>>
    /\ UNCHANGED <<orchAnswer, monReport>>

\* run_all_modules up to the module loop: with completed modules on record the
\* user is asked whether to resume; any answer but y resets the progress
RobustResumePrompt ==
    \E answer \in {"y", "n"} :
        /\ orchScript = "robust" /\ orchPc = "prompt"
        /\ orchArg # "background" \/ progress.completed_modules = <<>>
        /\ IF progress.completed_modules # <<>> /\ answer # "y"
           THEN progress' = FreshProgress /\ progressFile' = FreshProgress
           ELSE UNCHANGED <<progress, progressFile>>
        /\ orchAnswer' = IF progress.completed_modules # <<>> THEN answer ELSE "none"
        /\ results' = [completed |-> <<>>, failed |-> <<>>]
        /\ orchPc' = "loop"
        /\ UNCHANGED <<orchScript, orchIdx, proc, scripts, dirs, isRunning, resultsFile, summaryFile>>
        /\ UNCHANGED <<scorerVars, classifyVars, enhancedVars, trainVars, splitVars, parVars, fileVars, ageGroupVars, diseasesVars, fitVars>>
        /\ UNCHANGED <<orchArg, orchLoaded, monReport>>

\* how input() ends in a detached process: the shell gave it an empty
\* standard input and EOFError is raised, or it inherited a console nobody
\* types at and the call does not return
DetachedInput == {"eof", "blocked"}

\* run_all_modules of a background run with completed modules on record: the
\* same input() is called; EOFError is caught in main() of
\* background_training.py, which returns 1
BackgroundResumePrompt ==
    \E outcome \in DetachedInput :
        /\ orchScript = "robust" /\ orchPc = "prompt"
        /\ orchArg = "background" /\ progress.completed_modules # <<>>
        /\ orchAnswer' = outcome
        /\ orchPc' = IF outcome = "eof" THEN "exited" ELSE "blocked"
        /\ UNCHANGED <<orchScript, orchIdx, proc, scripts, dirs, progress, isRunning,
                       results, progressFile, resultsFile, summaryFile>>
        /\ UNCHANGED <<scorerVars, classifyVars, enhancedVars, trainVars, splitVars, parVars, fileVars, ageGroupVars, diseasesVars, fitVars>>
        /\ UNCHANGED <<orchArg, orchLoaded, monReport>>

\* mutant: a module on either list of the progress is skipped
AlreadyRecorded(m, p) ==
    m \in Range(p.completed_modules) \/ m \in Range(p.failed_modules)

\* the test of the module loop: module_name in self.progress["completed_modules"]
AlreadyCompleted(m, p) == m \in Range(p.completed_modules)

\* module loop: a module already in completed_modules is skipped
RobustSkip ==
    /\ orchScript = "robust" /\ orchPc = "loop" /\ isRunning
    /\ orchIdx <= Len(RobustModules)
    /\ AlreadyCompleted(RobustModules[orchIdx], progress)
    /\ results' = [results EXCEPT !.completed = Append(@, RobustModules[orchIdx])]
    /\ orchIdx' = orchIdx + 1
    /\ UNCHANGED <<orchScript, orchPc, proc, scripts, dirs, progress, isRunning,
                   progressFile, resultsFile, summaryFile>>
    /\ UNCHANGED <<scorerVars, classifyVars, enhancedVars, trainVars, splitVars, parVars, fileVars, ageGroupVars, diseasesVars, fitVars>>
    /\ UNCHANGED runVars

\* run_module_with_progress: the script does not exist; False is returned
\* without touching failed_modules or saving
RobustScriptNotFound ==
    /\ orchScript = "robust" /\ orchPc = "loop" /\ isRunning
    /\ orchIdx <= Len(RobustModules)
    /\ LET m == RobustModules[orchIdx] IN
        /\ ~AlreadyCompleted(m, progress)
        /\ m \notin scripts
        /\ progress' = [progress EXCEPT !.current_module = m]
        /\ results' = [results EXCEPT !.failed = Append(@, m)]
    /\ orchIdx' = orchIdx + 1
    /\ UNCHANGED <<orchScript, orchPc, proc, scripts, dirs, isRunning,
                   progressFile, resultsFile, summaryFile>>
    /\ UNCHANGED <<scorerVars, classifyVars, enhancedVars, trainVars, splitVars, parVars, fileVars, ageGroupVars, diseasesVars, fitVars>>
    /\ UNCHANGED runVars

\* run_module_with_progress: Popen starts the child
RobustLaunch ==
    /\ orchScript = "robust" /\ orchPc = "loop" /\ isRunning
    /\ orchIdx <= Len(RobustModules)
    /\ LET m == RobustModules[orchIdx] IN
        /\ ~AlreadyCompleted(m, progress)
        /\ m \in scripts
        /\ progress' = [progress EXCEPT !.current_module = m]
        /\ proc' = [proc EXCEPT ![m] = "running"]
    /\ orchPc' = "waiting"
    /\ UNCHANGED <<orchScript, orchIdx, scripts, dirs, isRunning,
                   results, progressFile, resultsFile, summaryFile>>
    /\ UNCHANGED <<scorerVars, classifyVars, enhancedVars, trainVars, splitVars, parVars, fileVars, ageGroupVars, diseasesVars, fitVars>>
    /\ UNCHANGED runVars

\* run_module_with_progress: the poll loop ends, communicate() returns, the
\* outcome is recorded in the progress, saved, and added to the results
RobustReap ==
    /\ orchScript = "robust" /\ orchPc = "waiting"
    /\ LET m == RobustModules[orchIdx]
           p == IF ReturnedZero(proc[m])
                THEN [progress EXCEPT
                        !.completed_modules = AppendNew(@, m),
                        !.overall_progress =
                            <<Len(AppendNew(progress.completed_modules, m)),
                              Len(RobustModules)>>]
                ELSE [progress EXCEPT !.failed_modules = AppendNew(@, m)]
       IN
        /\ ChildExited(proc[m])
        /\ progress' = p
        /\ progressFile' = p
        /\ results' = IF ReturnedZero(proc[m])
                      THEN [results EXCEPT !.completed = Append(@, m)]
                      ELSE [results EXCEPT !.failed = Append(@, m)]
    /\ orchIdx' = orchIdx + 1
    /\ orchPc' = "loop"
    /\ UNCHANGED <<orchScript, proc, scripts, dirs, isRunning, resultsFile, summaryFile>>
    /\ UNCHANGED <<scorerVars, classifyVars, enhancedVars, trainVars, splitVars, parVars, fileVars, ageGroupVars, diseasesVars, fitVars>>
    /\ UNCHANGED runVars

\* run_all_modules after the loop: save_final_results
RobustFinish ==
    /\ orchScript = "robust" /\ orchPc = "loop"
    /\ orchIdx > Len(RobustModules)
    /\ resultsFile' = [completed |-> results.completed, failed |-> results.failed,
                       total_modules |-> Len(RobustModules),
                       success_rate |-> <<Len(results.completed), Len(RobustModules)>>,
                       written_by |-> "this run"]
    /\ orchPc' = "done"
    /\ UNCHANGED <<orchScript, orchIdx, proc, scripts, dirs, progress, isRunning,
                   results, progressFile, summaryFile>>
    /\ UNCHANGED <<scorerVars, classifyVars, enhancedVars, trainVars, splitVars, parVars, fileVars, ageGroupVars, diseasesVars, fitVars>>
    /\ UNCHANGED runVars

\* signal_handler (SIGINT / SIGTERM): save_progress, is_running = False,
\* sys.exit(0); SystemExit is not an Exception, so no handler catches it
RobustSignal ==
    /\ orchScript = "robust" /\ orchPc \in {"prompt", "blocked", "loop", "waiting"}
    /\ progressFile' = progress
    /\ isRunning' = FALSE
    /\ orchPc' = "exited"
    /\ UNCHANGED <<orchScript, orchIdx, proc, scripts, dirs, progress, results, resultsFile, summaryFile>>
    /\ UNCHANGED <<scorerVars, classifyVars, enhancedVars, trainVars, splitVars, parVars, fileVars, ageGroupVars, diseasesVars, fitVars>>
    /\ UNCHANGED runVars

\* --- run_training_simple.py ------------------------------------------------

\* SimpleTrainingExecutor.__init__: a fresh progress record, never loaded
SimpleConstruct ==
    /\ orchScript = "simple" /\ orchPc = "start"
    /\ progress' = FreshProgress
    /\ dirs' = dirs \cup {"logs"}
    /\ results' = <<>>
    /\ orchPc' = "loop"
    /\ UNCHANGED <<orchScript, orchIdx, proc, scripts, isRunning, progressFile, resultsFile, summaryFile>>
    /\ UNCHANGED <<scorerVars, classifyVars, enhancedVars, trainVars, splitVars, parVars, fileVars, ageGroupVars, diseasesVars, fitVars>>
    /\ UNCHANGED runVars

\* run_module: current_module is set and saved, subprocess.run starts the child
SimpleLaunch ==
    /\ orchScript = "simple" /\ orchPc = "loop"
    /\ orchIdx <= Len(SimpleModules)
    /\ LET m == SimpleModules[orchIdx]
           p == [progress EXCEPT !.current_module = m]
       IN
        /\ progress' = p
        /\ progressFile' = p
        /\ proc' = [proc EXCEPT ![m] = "running"]
    /\ orchPc' = "waiting"
    /\ UNCHANGED <<orchScript, orchIdx, scripts, dirs, isRunning, results, resultsFile, summaryFile>>
    /\ UNCHANGED <<scorerVars, classifyVars, enhancedVars, trainVars, splitVars, parVars, fileVars, ageGroupVars, diseasesVars, fitVars>>
    /\ UNCHANGED runVars

\* number of modules whose result is True
Succeeded(res) == Cardinality({i \in DOMAIN res : res[i].success})

\* run_module after subprocess.run returned, and the rest of the loop body of
\* run_all_modules: the outcome is appended, current_module is cleared,
\* overall_progress is updated and the progress saved
SimpleReap ==
    /\ orchScript = "simple" /\ orchPc = "waiting"
    /\ LET m   == SimpleModules[orchIdx]
           ok  == ReturnedZero(proc[m])
           res == Append(results, [module |-> m, success |-> ok])
           p   == [progress EXCEPT
                     !.completed_modules = IF ok THEN Append(@, m) ELSE @,
                     !.failed_modules = IF ok THEN @ ELSE Append(@, m),
                     !.current_module = "None",
                     !.overall_progress = <<Succeeded(res), Len(SimpleModules)>>]
       IN
        /\ ChildExited(proc[m])
        /\ results' = res
        /\ progress' = p
        /\ progressFile' = p
    /\ orchIdx' = orchIdx + 1
    /\ orchPc' = "loop"
    /\ UNCHANGED <<orchScript, proc, scripts, dirs, isRunning, resultsFile, summaryFile>>
    /\ UNCHANGED <<scorerVars, classifyVars, enhancedVars, trainVars, splitVars, parVars, fileVars, ageGroupVars, diseasesVars, fitVars>>
    /\ UNCHANGED runVars

\* run_all_modules after the loop: final_results is written
SimpleFinish ==
    /\ orchScript = "simple" /\ orchPc = "loop"
    /\ orchIdx > Len(SimpleModules)
    /\ resultsFile' = [total_modules |-> Len(SimpleModules),
                       completed_modules |-> Len(progress.completed_modules),
                       failed_modules |-> Len(progress.failed_modules),
                       overall_progress |-> progress.overall_progress,
                       results |-> results,
                       written_by |-> "this run"]
    /\ orchPc' = "done"
    /\ UNCHANGED <<orchScript, orchIdx, proc, scripts, dirs, progress, isRunning,
                   results, progressFile, summaryFile>>
    /\ UNCHANGED <<scorerVars, classifyVars, enhancedVars, trainVars, splitVars, parVars, fileVars, ageGroupVars, diseasesVars, fitVars>>
    /\ UNCHANGED runVars

\* --- monitor_training.py, check_background_status -------------------------

\* what both print for a training_results.json that exists / does not exist
StatusShown(file) == IF file # Nil THEN "completed" ELSE "in progress"

\* one round of the loop of monitor_training, run beside an executor: the
\* loop ends once it has reported completion
MonitorTraining ==
    /\ orchScript \in {"robust", "simple"}
    /\ monReport.monitor # "completed"
    /\ monReport' = [monReport EXCEPT !.monitor = StatusShown(resultsFile)]
    /\ UNCHANGED <<orchScript, orchPc, orchIdx, proc, scripts, dirs, progress, isRunning,
                   results, progressFile, resultsFile, summaryFile>>
    /\ UNCHANGED <<scorerVars, classifyVars, enhancedVars, trainVars, splitVars, parVars, fileVars, ageGroupVars, diseasesVars, fitVars>>
    /\ UNCHANGED <<orchArg, orchLoaded, orchAnswer>>

\* check_background_status of run_training_background.py and of
\* run_training_background_windows.py
CheckBackgroundStatus ==
    /\ orchScript = "robust" /\ orchArg = "background"
    /\ monReport' = [monReport EXCEPT !.status = StatusShown(resultsFile)]
    /\ UNCHANGED <<orchScript, orchPc, orchIdx, proc, scripts, dirs, progress, isRunning,
                   results, progressFile, resultsFile, summaryFile>>
    /\ UNCHANGED <<scorerVars, classifyVars, enhancedVars, trainVars, splitVars, parVars, fileVars, ageGroupVars, diseasesVars, fitVars>>
    /\ UNCHANGED <<orchArg, orchLoaded, orchAnswer>>

OrchNext ==
    \/ ChildExit
    \/ MasterGenerateTrainingSummary
    \/ BackgroundMain
    \/ BackgroundResumePrompt
    \/ MonitorTraining
    \/ CheckBackgroundStatus
    \/ MasterConstruct
    \/ MasterRunAllTrainingModules
    \/ MasterModuleNotFound
    \/ MasterLaunch
    \/ MasterReap
    \/ RobustMain
    \/ RobustResumePrompt
    \/ RobustSkip
    \/ RobustScriptNotFound
    \/ RobustLaunch
    \/ RobustReap
    \/ RobustFinish
    \/ RobustSignal
    \/ SimpleConstruct
    \/ SimpleLaunch
    \/ SimpleReap
    \/ SimpleFinish

\* ---------------------------------------------------------------------------
\* run_parallel_training.py: main() runs run_cdc_training and
\* run_medical_qa_training on two threads; each thread runs one child process
\* with subprocess.run.
\* ---------------------------------------------------------------------------

ParJobs == {"cdc", "medical_qa"}

\* mutant: join returns without waiting
ThreadJoinedAtOnce(state) == TRUE

\* Thread.join returns only once the thread's target has returned
ThreadJoined(state) == state = "finished"

ParIdle ==
    /\ parPc = "none" /\ thr = <<>> /\ child = <<>> /\ parMsg = <<>>
    /\ parData = {} /\ parScripts = {}

ParStart ==
    /\ parPc = "start"
    /\ thr = [j \in ParJobs |-> "new"]
    /\ child = [j \in ParJobs |-> "none"]
    /\ parMsg = [j \in ParJobs |-> "none"]
    /\ parData \in SUBSET ParJobs
    /\ parScripts \in SUBSET ParJobs

\* main: a data directory is missing or empty; main returns before any thread
\* is created
ParDatasetNotFound ==
    /\ parPc = "start"
    /\ parData # ParJobs
    /\ parPc' = "returned"
    /\ UNCHANGED <<thr, child, parMsg, parData, parScripts>>
    /\ UNCHANGED <<scorerVars, classifyVars, enhancedVars, trainVars, splitVars, orchVars, fileVars, ageGroupVars, diseasesVars, fitVars>>

\* main: both datasets found; cdc_thread.start()
ParStartCdcThread ==
    /\ parPc = "start"
    /\ parData = ParJobs
    /\ thr' = [thr EXCEPT !["cdc"] = "started"]
    /\ parPc' = "start_medical_qa"
    /\ UNCHANGED <<child, parMsg, parData, parScripts>>
    /\ UNCHANGED <<scorerVars, classifyVars, enhancedVars, trainVars, splitVars, orchVars, fileVars, ageGroupVars, diseasesVars, fitVars>>

\* main: medical_qa_thread.start()
ParStartMedicalQaThread ==
    /\ parPc = "start_medical_qa"
    /\ thr' = [thr EXCEPT !["medical_qa"] = "started"]
    /\ parPc' = "join_cdc"
    /\ UNCHANGED <<child, parMsg, parData, parScripts>>
    /\ UNCHANGED <<scorerVars, classifyVars, enhancedVars, trainVars, splitVars, orchVars, fileVars, ageGroupVars, diseasesVars, fitVars>>

\* main: cdc_thread.join()
ParJoinCdcThread ==
    /\ parPc = "join_cdc"
    /\ ThreadJoined(thr["cdc"])
    /\ parPc' = "join_medical_qa"
    /\ UNCHANGED <<thr, child, parMsg, parData, parScripts>>
    /\ UNCHANGED <<scorerVars, classifyVars, enhancedVars, trainVars, splitVars, orchVars, fileVars, ageGroupVars, diseasesVars, fitVars>>

\* main: medical_qa_thread.join(), then the summary is printed
ParJoinMedicalQaThread ==
    /\ parPc = "join_medical_qa"
    /\ ThreadJoined(thr["medical_qa"])
    /\ parPc' = "done"
    /\ UNCHANGED <<thr, child, parMsg, parData, parScripts>>
    /\ UNCHANGED <<scorerVars, classifyVars, enhancedVars, trainVars, splitVars, orchVars, fileVars, ageGroupVars, diseasesVars, fitVars>>

\* run_cdc_training / run_medical_qa_training: subprocess.run starts the child
ParThreadLaunch ==
    \E j \in ParJobs :
        /\ thr[j] = "started"
        /\ thr' = [thr EXCEPT ![j] = "waiting"]
        /\ child' = [child EXCEPT ![j] = "running"]
        /\ UNCHANGED <<parPc, parMsg, parData, parScripts>>
        /\ UNCHANGED <<scorerVars, classifyVars, enhancedVars, trainVars, splitVars, orchVars, fileVars, ageGroupVars, diseasesVars, fitVars>>

\* the child of job j exits; without its script it cannot exit 0
ParChildExit ==
    \E j \in ParJobs, code \in {0, 1} :
        /\ child[j] = "running"
        /\ code = 0 => j \in parScripts
        /\ child' = [child EXCEPT ![j] = IF code = 0 THEN "exit0" ELSE "exit1"]
        /\ UNCHANGED <<parPc, thr, parMsg, parData, parScripts>>
        /\ UNCHANGED <<scorerVars, classifyVars, enhancedVars, trainVars, splitVars, orchVars, fileVars, ageGroupVars, diseasesVars, fitVars>>

\* run_cdc_training / run_medical_qa_training: subprocess.run returns, the
\* outcome is printed and the thread ends
ParThreadReap ==
    \E j \in ParJobs :
        /\ thr[j] = "waiting"
        /\ ChildExited(child[j])
        /\ parMsg' = [parMsg EXCEPT ![j] = IF ReturnedZero(child[j]) THEN "completed" ELSE "failed"]
        /\ thr' = [thr EXCEPT ![j] = "finished"]
        /\ UNCHANGED <<parPc, child, parData, parScripts>>
        /\ UNCHANGED <<scorerVars, classifyVars, enhancedVars, trainVars, splitVars, orchVars, fileVars, ageGroupVars, diseasesVars, fitVars>>

ParNext ==
    \/ ParDatasetNotFound
    \/ ParStartCdcThread
    \/ ParStartMedicalQaThread
    \/ ParJoinCdcThread
    \/ ParJoinMedicalQaThread
    \/ ParThreadLaunch
    \/ ParChildExit
    \/ ParThreadReap

\* ---------------------------------------------------------------------------
\* Output files and the scripts that write them.  A path is the sequence of
\* its components below the repository root; the files of interest are those
\* named training_progress.json, training_results.json and
\* training_summary.json.
\* ---------------------------------------------------------------------------

\* Path(__file__).parent of each script
ScriptDir ==
    [robust    |-> <<"python">>,
     simple    |-> <<"python">>,
     master    |-> <<"python">>,
     cdc_trainer |-> <<"python", "cdc_training">>,
     diseases_symptoms_trainer |-> <<"python", "diseases_symptoms_training">>]

Writers == DOMAIN ScriptDir

\* working directories a script is started in: the repository root, python/
\* (the cwd= the three orchestration scripts give their children), and the
\* script's own directory
WorkingDirs == {<<>>, <<"python">>, <<"python", "cdc_training">>}

\* Path / str ... and open() of a relative name: the name is appended to the
\* directory
JoinPath(dir, rel) == dir \o rel

\* RobustTrainingExecutor.progress_file / results_file
robust_progress_file == JoinPath(ScriptDir.robust, <<"training_progress.json">>)

robust_results_file == JoinPath(ScriptDir.robust, <<"training_results.json">>)

\* SimpleTrainingExecutor.progress_file / results_file
simple_progress_file == JoinPath(ScriptDir.simple, <<"training_progress.json">>)

simple_results_file == JoinPath(ScriptDir.simple, <<"training_results.json">>)

\* generate_training_summary: summary_path
master_summary_path ==
    JoinPath(JoinPath(ScriptDir.master, <<"outputs">>), <<"training_summary.json">>)

\* CDCModelTrainer.train: f"{self.outputs_dir}/training_summary.json" with
\* outputs_dir = "outputs", relative to the working directory
cdc_summary_path(cwd) == JoinPath(cwd, <<"outputs", "training_summary.json">>)

\* DiseasesSymptomsTrainer: outputs_dir / "training_results.json"
diseases_results_path ==
    JoinPath(JoinPath(ScriptDir.diseases_symptoms_trainer, <<"outputs">>),
             <<"training_results.json">>)

OutputPaths ==
    {robust_progress_file, robust_results_file, simple_progress_file,
     simple_results_file, master_summary_path, diseases_results_path}
    \cup {cdc_summary_path(cwd) : cwd \in WorkingDirs}

FilesIdle == diskLast = Nil /\ diskWriters = Nil

FilesStart ==
    /\ diskLast = [p \in OutputPaths |-> "none"]
    /\ diskWriters = [p \in OutputPaths |-> {}]

\* open(path, 'w') by the script w, followed by the dump
WriteFile(w, path) ==
    /\ diskLast' = [diskLast EXCEPT ![path] = w]
    /\ diskWriters' = [diskWriters EXCEPT ![path] = @ \cup {w}]
    /\ UNCHANGED <<scorerVars, classifyVars, enhancedVars, trainVars, splitVars, fitVars>>
    /\ UNCHANGED <<orchVars, parVars, ageGroupVars, diseasesVars, fitVars>>

\* run_training_robust.py save_progress
RobustSaveProgress == WriteFile("robust", robust_progress_file)

\* run_training_robust.py save_final_results
RobustSaveFinalResults == WriteFile("robust", robust_results_file)

\* run_training_simple.py save_progress
SimpleSaveProgress == WriteFile("simple", simple_progress_file)

\* run_training_simple.py run_all_modules: final_results is written
SimpleWriteFinalResults == WriteFile("simple", simple_results_file)

\* master_training_orchestrator.py generate_training_summary
MasterWriteSummary == WriteFile("master", master_summary_path)

\* cdc_training/cdc_model_trainer.py train, started in some working directory
CdcTrainerWriteSummary ==
    \E cwd \in WorkingDirs : WriteFile("cdc_trainer", cdc_summary_path(cwd))

\* diseases_symptoms_trainer.py train_model: training_results.json
DiseasesWriteResults == WriteFile("diseases_symptoms_trainer", diseases_results_path)

FilesNext ==
    \/ RobustSaveProgress
    \/ RobustSaveFinalResults
    \/ SimpleSaveProgress
    \/ SimpleWriteFinalResults
    \/ MasterWriteSummary
    \/ CdcTrainerWriteSummary
    \/ DiseasesWriteResults

\* ---------------------------------------------------------------------------
\* Age groups: _get_age_group of the advanced pipeline and of the
\* continuous-learning trainer, and the age distribution of
\* nih_data_processor.py's _generate_statistics.
\* ---------------------------------------------------------------------------

\* the keys of the continuous-learning trainer and of the NIH statistics
AgeRangeKeys == {"0-2", "3-5", "6-12", "13-17"}

\* continuous_learning_trainer.py: if age < 2 / elif age < 6 / elif age < 13
continuous_get_age_group(age) ==
    IF age < 2 THEN "0-2"
    ELSE IF age < 6 THEN "3-5"
    ELSE IF age < 13 THEN "6-12"
    ELSE "13-17"

\* nih_data_processor.py: if age <= 2 / elif age <= 5 / elif age <= 12
statistics_age_key(age) ==
    IF age <= 2 THEN "0-2"
    ELSE IF age <= 5 THEN "3-5"
    ELSE IF age <= 12 THEN "6-12"
    ELSE "13-17"

\* age_groups = {'0-2': 0, ...}; for case in cases: age_groups[key] += 1
generate_statistics_age_distribution(cases) ==
    [k \in AgeRangeKeys |->
        Cardinality({i \in 1..Len(cases) : statistics_age_key(cases[i]) = k})]

AgeGroupIdle ==
    agCases = Nil /\ agAdvanced = Nil /\ agContinuous = Nil /\ agDistribution = Nil

AgeGroupStart ==
    /\ agCases \in [ages : SeqsUpTo(Ages, MaxCases) \ {<<>>}]
    /\ agAdvanced = Nil
    /\ agContinuous = Nil
    /\ agDistribution = Nil

AdvancedGetAgeGroup ==
    /\ agCases # Nil
    /\ agAdvanced = Nil
    /\ agAdvanced' = [groups |-> [i \in 1..Len(agCases.ages) |-> get_age_group(agCases.ages[i])]]
    /\ UNCHANGED <<agCases, agContinuous, agDistribution>>
    /\ UNCHANGED <<scorerVars, classifyVars, enhancedVars, trainVars, splitVars, fitVars>>
    /\ UNCHANGED <<orchVars, parVars, fileVars, diseasesVars, fitVars>>

ContinuousGetAgeGroup ==
    /\ agCases # Nil
    /\ agContinuous = Nil
    /\ agContinuous' =
          [groups |-> [i \in 1..Len(agCases.ages) |-> continuous_get_age_group(agCases.ages[i])]]
    /\ UNCHANGED <<agCases, agAdvanced, agDistribution>>
    /\ UNCHANGED <<scorerVars, classifyVars, enhancedVars, trainVars, splitVars, fitVars>>
    /\ UNCHANGED <<orchVars, parVars, fileVars, diseasesVars, fitVars>>

GenerateStatistics ==
    /\ agCases # Nil
    /\ agDistribution = Nil
    /\ agDistribution' = generate_statistics_age_distribution(agCases.ages)
    /\ UNCHANGED <<agCases, agAdvanced, agContinuous>>
    /\ UNCHANGED <<scorerVars, classifyVars, enhancedVars, trainVars, splitVars, fitVars>>
    /\ UNCHANGED <<orchVars, parVars, fileVars, diseasesVars, fitVars>>

AgeGroupNext == AdvancedGetAgeGroup \/ ContinuousGetAgeGroup \/ GenerateStatistics

\* ---------------------------------------------------------------------------
\* diseases_symptoms_trainer.py: run_complete_pipeline and main, and
\* test_diseases_symptoms_training.py, which calls the same four steps.
\* ---------------------------------------------------------------------------

\* the steps list of run_complete_pipeline (the test calls them in this order)
steps ==
    <<"Download Dataset", "Process Dataset", "Train Models", "Create Flutter Integration">>

\* the files each step writes, in the order it writes them
StepFiles ==
    ("Download Dataset" :> <<"dataset_info.json">>)
    @@ ("Process Dataset" :> <<"train_data.csv", "test_data.csv">>)
    @@ ("Train Models" :> <<"training_results.json", "diseases_symptoms_vectorizer.pkl",
                            "diseases_symptoms_classifier.pkl">>)
    @@ ("Create Flutter Integration" :> <<"diseases_symptoms_flutter_integration.dart">>)

\* files an earlier run may have left behind
PriorFiles == {"training_results.json", "pipeline_summary.json"}

FirstWritten(files, k) == {files[i] : i \in 1..k}

\* mutant: the loop goes on to the next step after a step that returned False
PcAfterStepNoBreak(success, executed) ==
    IF executed < Len(steps) THEN "steps" ELSE "summary"

\* if not success: break; the loop also ends after the last step
PcAfterStep(success, executed) ==
    IF ~success THEN "summary"
    ELSE IF executed < Len(steps) THEN "steps" ELSE "summary"

\* all("Success" in result for result in results.values())
AllSuccess(res) == \A i \in 1..Len(res) : res[i].result = "Success"

DiseasesIdle ==
    /\ dsDriver = "none" /\ dsPc = "none" /\ dsExecuted = <<>> /\ dsFailedAt = 0
    /\ dsResults = <<>> /\ dsReturn = "none" /\ dsFiles = {} /\ dsExit = "none"

DiseasesStart ==
    /\ dsDriver \in {"pipeline", "test"}
    /\ dsPc = "steps"
    /\ dsExecuted = <<>>
    /\ dsFailedAt = 0
    /\ dsResults = <<>>
    /\ dsReturn = "none"
    /\ dsFiles \in SUBSET PriorFiles
    /\ dsExit = "none"

NextStep == steps[Len(dsExecuted) + 1]

CanStep(driver) ==
    /\ dsDriver = driver
    /\ dsPc = "steps"
    /\ Len(dsExecuted) < Len(steps)

\* success = step_func() returns True: every file of the step is written
PipelineStepSucceeds ==
    /\ CanStep("pipeline")
    /\ dsExecuted' = Append(dsExecuted, NextStep)
    /\ dsResults' = Append(dsResults, [step |-> NextStep, result |-> "Success"])
    /\ dsFiles' = dsFiles \cup FirstWritten(StepFiles[NextStep], Len(StepFiles[NextStep]))
    /\ dsPc' = PcAfterStep(TRUE, Len(dsExecuted) + 1)
    /\ UNCHANGED <<dsDriver, dsFailedAt, dsReturn, dsExit>>
    /\ UNCHANGED <<scorerVars, classifyVars, enhancedVars, trainVars, splitVars, fitVars>>
    /\ UNCHANGED <<orchVars, parVars, fileVars, ageGroupVars, fitVars>>

\* the step caught an exception and returned False, after writing some of
\* its files but not the last
PipelineStepFails ==
    /\ CanStep("pipeline")
    /\ dsExecuted' = Append(dsExecuted, NextStep)
    /\ dsFailedAt' = Len(dsExecuted) + 1
    /\ dsResults' = Append(dsResults, [step |-> NextStep, result |-> "Failed"])
    /\ \E k \in 0..(Len(StepFiles[NextStep]) - 1) :
          dsFiles' = dsFiles \cup FirstWritten(StepFiles[NextStep], k)
    /\ dsPc' = PcAfterStep(FALSE, Len(dsExecuted) + 1)
    /\ UNCHANGED <<dsDriver, dsReturn, dsExit>>
    /\ UNCHANGED <<scorerVars, classifyVars, enhancedVars, trainVars, splitVars, fitVars>>
    /\ UNCHANGED <<orchVars, parVars, fileVars, ageGroupVars, fitVars>>

\* KeyboardInterrupt during a step: neither the step's nor the pipeline's
\* 'except Exception' catches it, and run_complete_pipeline is left
PipelineStepInterrupted ==
    /\ CanStep("pipeline")
    /\ dsExecuted' = Append(dsExecuted, NextStep)
    /\ dsFailedAt' = Len(dsExecuted) + 1
    /\ \E k \in 0..(Len(StepFiles[NextStep]) - 1) :
          dsFiles' = dsFiles \cup FirstWritten(StepFiles[NextStep], k)
    /\ dsPc' = "raised"
    /\ dsReturn' = "raised"
    /\ dsExit' = "interrupted"
    /\ UNCHANGED <<dsDriver, dsResults>>
    /\ UNCHANGED <<scorerVars, classifyVars, enhancedVars, trainVars, splitVars, fitVars>>
    /\ UNCHANGED <<orchVars, parVars, fileVars, ageGroupVars, fitVars>>

\* after the loop: pipeline_summary.json is written and all(...) returned
PipelineSaveSummary ==
    /\ dsDriver = "pipeline"
    /\ dsPc = "summary"
    /\ dsFiles' = dsFiles \cup {"pipeline_summary.json"}
    /\ dsReturn' = IF AllSuccess(dsResults) THEN "True" ELSE "False"
    /\ dsPc' = "returned"
    /\ UNCHANGED <<dsDriver, dsExecuted, dsFailedAt, dsResults, dsExit>>
    /\ UNCHANGED <<scorerVars, classifyVars, enhancedVars, trainVars, splitVars, fitVars>>
    /\ UNCHANGED <<orchVars, parVars, fileVars, ageGroupVars, fitVars>>

\* main of either script: sys.exit(0) if success else sys.exit(1)
MainExit ==
    /\ dsPc = "returned"
    /\ dsExit' = IF dsReturn = "True" THEN "0" ELSE "1"
    /\ dsPc' = "exited"
    /\ UNCHANGED <<dsDriver, dsExecuted, dsFailedAt, dsResults, dsReturn, dsFiles>>
    /\ UNCHANGED <<scorerVars, classifyVars, enhancedVars, trainVars, splitVars, fitVars>>
    /\ UNCHANGED <<orchVars, parVars, fileVars, ageGroupVars, fitVars>>

\* test script: the step returns True; after the fourth the test returns True
TestStepSucceeds ==
    /\ CanStep("test")
    /\ dsExecuted' = Append(dsExecuted, NextStep)
    /\ dsFiles' = dsFiles \cup FirstWritten(StepFiles[NextStep], Len(StepFiles[NextStep]))
    /\ IF Len(dsExecuted) + 1 = Len(steps)
       THEN dsPc' = "returned" /\ dsReturn' = "True"
       ELSE UNCHANGED <<dsPc, dsReturn>>
    /\ UNCHANGED <<dsDriver, dsFailedAt, dsResults, dsExit>>
    /\ UNCHANGED <<scorerVars, classifyVars, enhancedVars, trainVars, splitVars, fitVars>>
    /\ UNCHANGED <<orchVars, parVars, fileVars, ageGroupVars, fitVars>>

\* test script: the step returns False and the test returns False at once
TestStepFails ==
    /\ CanStep("test")
    /\ dsExecuted' = Append(dsExecuted, NextStep)
    /\ dsFailedAt' = Len(dsExecuted) + 1
    /\ \E k \in 0..(Len(StepFiles[NextStep]) - 1) :
          dsFiles' = dsFiles \cup FirstWritten(StepFiles[NextStep], k)
    /\ dsPc' = "returned"
    /\ dsReturn' = "False"
    /\ UNCHANGED <<dsDriver, dsResults, dsExit>>
    /\ UNCHANGED <<scorerVars, classifyVars, enhancedVars, trainVars, splitVars, fitVars>>
    /\ UNCHANGED <<orchVars, parVars, fileVars, ageGroupVars, fitVars>>

\* test script: KeyboardInterrupt during a step passes 'except Exception'
TestStepInterrupted ==
    /\ CanStep("test")
    /\ dsExecuted' = Append(dsExecuted, NextStep)
    /\ dsFailedAt' = Len(dsExecuted) + 1
    /\ \E k \in 0..(Len(StepFiles[NextStep]) - 1) :
          dsFiles' = dsFiles \cup FirstWritten(StepFiles[NextStep], k)
    /\ dsPc' = "raised"
    /\ dsReturn' = "raised"
    /\ dsExit' = "interrupted"
    /\ UNCHANGED <<dsDriver, dsResults>>
    /\ UNCHANGED <<scorerVars, classifyVars, enhancedVars, trainVars, splitVars, fitVars>>
    /\ UNCHANGED <<orchVars, parVars, fileVars, ageGroupVars, fitVars>>

DiseasesNext ==
    \/ PipelineStepSucceeds
    \/ PipelineStepFails
    \/ PipelineStepInterrupted
    \/ PipelineSaveSummary
    \/ MainExit
    \/ TestStepSucceeds
    \/ TestStepFails
    \/ TestStepInterrupted

(***************************************************************************)
(* enhanced_nih_training.py: train_enhanced_models.  A row of the feature  *)
(* matrix is named by the position of its record in the file.              *)
(***************************************************************************)
MaxRecords == 4     \* most records in the train/validation file

\* records drawn: one for each pair of labels the drawn findings can get
\* (high/urgent, high/high, medium/routine, low/routine)
FitCases ==
    {[findings |-> <<"Pneumonia">>, age |-> 2, gender |-> "M"],
     [findings |-> <<"Pneumonia">>, age |-> 8, gender |-> "M"],
     [findings |-> <<"Atelectasis">>, age |-> 8, gender |-> "M"],
     [findings |-> <<"No Finding">>, age |-> 8, gender |-> "M"]}

\* prepare_enhanced_features(df): labels[name], one entry per record
LabelColumn(rows, name) ==
    [i \in 1..Len(rows) |-> prepare_enhanced_features(rows[i])[name]]

SeverityClasses == {"high", "medium", "low"}

ClassCounts(y) ==
    [c \in SeverityClasses |-> Cardinality({i \in DOMAIN y : y[i] = c})]

\* the orders in which the elements of S can come
Orderings(S) ==
    {s \in [1..Cardinality(S) -> S] :
        \A i, j \in 1..Cardinality(S) : i # j => s[i] # s[j]}

\* array[indices]
Take(array, indices) == [j \in 1..Len(indices) |-> array[indices[j]]]

\* a test part with the share of each class that its share of y calls for
Stratified(y, part) ==
    \A c \in SeverityClasses :
        LET share == ClassCounts(y)[c] * Cardinality(part)
            drawn == Cardinality({i \in part : y[i] = c})
        IN  drawn * Len(y) > share - Len(y) /\ drawn * Len(y) < share + Len(y)

\* train_test_split(X, y, test_size=0.2, stratify=y): ceil(0.2 n) rows go to
\* the test part, the rest to the train part, both in shuffled order
train_test_split(y) ==
    LET n      == Len(y)
        n_test == (n + 4) \div 5
        parts  == {p \in SUBSET (1..n) : Cardinality(p) = n_test /\ Stratified(y, p)}
    IN  UNION {{[X_train |-> tr, X_val |-> va,
                 y_train |-> Take(y, tr), y_val |-> Take(y, va)]
                    : tr \in Orderings((1..n) \ p), va \in Orderings(p)}
                : p \in parts}

FitIdle ==
    /\ fitData = Nil /\ fitPc = "none" /\ fitSplit = Nil
    /\ fitSeverity = Nil /\ fitUrgency = Nil /\ fitUrgencyVal = Nil

FitStart ==
    /\ fitData \in [rows : {s \in SeqsUpTo(FitCases, MaxRecords) : Len(s) >= 1}]
    /\ fitPc = "start"
    /\ fitSplit = Nil
    /\ fitSeverity = Nil /\ fitUrgency = Nil /\ fitUrgencyVal = Nil

\* the split on the severity labels; its ValueError leaves train_enhanced_models
TrainTestSplit ==
    /\ fitPc = "start"
    /\ LET y == LabelColumn(fitData.rows, "severity") IN
        IF StratifiedSplitRaises(ClassCounts(y))
        THEN fitPc' = "raised" /\ UNCHANGED fitSplit
        ELSE /\ fitSplit' \in train_test_split(y)
             /\ fitPc' = "split"
    /\ UNCHANGED <<fitData, fitSeverity, fitUrgency, fitUrgencyVal>>
    /\ UNCHANGED <<scorerVars, classifyVars, enhancedVars, trainVars, splitVars, orchVars, parVars, fileVars, ageGroupVars, diseasesVars>>

\* severity_model.fit(X_train, y_train);
\* accuracy_score(y_val, severity_model.predict(X_val))
TrainSeverityModel ==
    /\ fitPc = "split"
    /\ fitSeverity' = [X |-> fitSplit.X_train, y |-> fitSplit.y_train,
                       val_X |-> fitSplit.X_val, val_truth |-> fitSplit.y_val]
    /\ fitPc' = "severity"
    /\ UNCHANGED <<fitData, fitSplit, fitUrgency, fitUrgencyVal>>
    /\ UNCHANGED <<scorerVars, classifyVars, enhancedVars, trainVars, splitVars, orchVars, parVars, fileVars, ageGroupVars, diseasesVars>>

\* urgency_model.fit(X_train, y_train_val['urgency'][:len(X_train)])
TrainUrgencyModel ==
    /\ fitPc = "severity"
    /\ fitUrgency' = [X |-> fitSplit.X_train,
                      y |-> SubSeq(LabelColumn(fitData.rows, "urgency"),
                                   1, Len(fitSplit.X_train))]
    /\ fitPc' = "urgency"
    /\ UNCHANGED <<fitData, fitSplit, fitSeverity, fitUrgencyVal>>
    /\ UNCHANGED <<scorerVars, classifyVars, enhancedVars, trainVars, splitVars, orchVars, parVars, fileVars, ageGroupVars, diseasesVars>>

\* val_urgency_accuracy = accuracy_score(y_val, urgency_model.predict(X_val))
EvaluateUrgencyModel ==
    /\ fitPc = "urgency"
    /\ fitUrgencyVal' = [val_X |-> fitSplit.X_val, val_truth |-> fitSplit.y_val]
    /\ fitPc' = "returned"
    /\ UNCHANGED <<fitData, fitSplit, fitSeverity, fitUrgency>>
    /\ UNCHANGED <<scorerVars, classifyVars, enhancedVars, trainVars, splitVars, orchVars, parVars, fileVars, ageGroupVars, diseasesVars>>

FitNext ==
    TrainTestSplit \/ TrainSeverityModel \/ TrainUrgencyModel \/ EvaluateUrgencyModel

ScorerInit ==
    ScorerStart /\ ClassifyIdle /\ EnhancedIdle /\ TrainIdle /\ SplitIdle /\ OrchIdle /\ ParIdle /\ FilesIdle /\ AgeGroupIdle /\ DiseasesIdle /\ FitIdle

ClassifyInit ==
    ClassifyStart /\ ScorerIdle /\ EnhancedIdle /\ TrainIdle /\ SplitIdle /\ OrchIdle /\ ParIdle /\ FilesIdle /\ AgeGroupIdle /\ DiseasesIdle /\ FitIdle

EnhancedInit ==
    EnhancedStart /\ ScorerIdle /\ ClassifyIdle /\ TrainIdle /\ SplitIdle /\ OrchIdle /\ ParIdle /\ FilesIdle /\ AgeGroupIdle /\ DiseasesIdle /\ FitIdle

TrainInit ==
    TrainStart /\ ScorerIdle /\ ClassifyIdle /\ EnhancedIdle /\ SplitIdle /\ OrchIdle /\ ParIdle /\ FilesIdle /\ AgeGroupIdle /\ DiseasesIdle /\ FitIdle

SplitInit ==
    SplitStart /\ ScorerIdle /\ ClassifyIdle /\ EnhancedIdle /\ TrainIdle /\ OrchIdle /\ ParIdle /\ FilesIdle /\ AgeGroupIdle /\ DiseasesIdle /\ FitIdle

OrchInit ==
    OrchStart /\ ScorerIdle /\ ClassifyIdle /\ EnhancedIdle /\ TrainIdle /\ SplitIdle /\ ParIdle /\ FilesIdle /\ AgeGroupIdle /\ DiseasesIdle /\ FitIdle

ParInit ==
    ParStart /\ ScorerIdle /\ ClassifyIdle /\ EnhancedIdle /\ TrainIdle /\ SplitIdle /\ OrchIdle /\ FilesIdle /\ AgeGroupIdle /\ DiseasesIdle /\ FitIdle

SpecTrain == TrainInit /\ [][TrainNext]_vars

SpecSplit == SplitInit /\ [][SplitNext]_vars

SpecEnhanced == EnhancedInit /\ [][EnhancedNext]_vars

SpecScorer == ScorerInit /\ [][ScorerNext]_vars

SpecClassify == ClassifyInit /\ [][ClassifyNext]_vars

SpecOrch == OrchInit /\ [][OrchNext]_vars

SpecPar == ParInit /\ [][ParNext]_vars

FilesInit ==
    FilesStart /\ ScorerIdle /\ ClassifyIdle /\ EnhancedIdle /\ TrainIdle /\ SplitIdle /\ OrchIdle /\ ParIdle /\ AgeGroupIdle /\ DiseasesIdle /\ FitIdle

SpecFiles == FilesInit /\ [][FilesNext]_vars

AgeGroupInit ==
    AgeGroupStart /\ ScorerIdle /\ ClassifyIdle /\ EnhancedIdle /\ TrainIdle /\ SplitIdle /\ OrchIdle /\ ParIdle /\ FilesIdle /\ DiseasesIdle /\ FitIdle

SpecAgeGroups == AgeGroupInit /\ [][AgeGroupNext]_vars

DiseasesInit ==
    DiseasesStart /\ ScorerIdle /\ ClassifyIdle /\ EnhancedIdle /\ TrainIdle /\ SplitIdle /\ OrchIdle /\ ParIdle /\ FilesIdle /\ AgeGroupIdle /\ FitIdle

SpecDiseases == DiseasesInit /\ [][DiseasesNext]_vars

FitInit ==
    FitStart /\ ScorerIdle /\ ClassifyIdle /\ EnhancedIdle /\ TrainIdle /\ SplitIdle /\ OrchIdle /\ ParIdle /\ FilesIdle /\ AgeGroupIdle /\ DiseasesIdle

SpecFit == FitInit /\ [][FitNext]_vars

SeverityTier == [low |-> 0, moderate |-> 1, high |-> 2, critical |-> 3]

UrgencyTier == [monitoring |-> 0, routine |-> 1, urgent |-> 2, immediate |-> 3]

RiskTier == [low |-> 0, moderate |-> 1, high |-> 2, very_high |-> 3]

\* C2: for every age group and all scores s1 <= s2 in [0,1], the label of s1
\* is never a strictly higher tier than the label of s2, for the severity,
\* urgency and risk classifiers.
C2_LabelsMonotonic ==
    labels # Nil =>
        /\ SeverityTier[labels.of1.severity] <= SeverityTier[labels.of2.severity]
        /\ UrgencyTier[labels.of1.urgency] <= UrgencyTier[labels.of2.urgency]
        /\ RiskTier[labels.of1.risk] <= RiskTier[labels.of2.risk]

\* two scores of one age group that fall in different tiers of all three
C2_Witness ==
    /\ labels # Nil
    /\ pair.s1 < pair.s2
    /\ SeverityTier[labels.of1.severity] < SeverityTier[labels.of2.severity]
    /\ UrgencyTier[labels.of1.urgency] < UrgencyTier[labels.of2.urgency]
    /\ RiskTier[labels.of1.risk] < RiskTier[labels.of2.risk]
    /\ labels.of2.severity = "critical"
    /\ labels.of1.urgency = "routine"

ScoreInRange(x) == 0 <= x /\ x <= Unit

\* C1: for every findings list, integer age and gender value, each of
\* _calculate_clinical_severity, _calculate_clinical_urgency and
\* _calculate_risk_score returns a value in the closed interval [0, 1].
C1_ScoresInUnitInterval ==
    pyOut # Nil =>
        /\ ScoreInRange(pyOut.severity_score)
        /\ ScoreInRange(pyOut.urgency_score)
        /\ ScoreInRange(pyOut.risk_score)

\* the clamp is what bounds the score: the weighted sum alone exceeds 1
C1_Witness ==
    /\ pyOut # Nil
    /\ SumWeights(row.findings, severity_weights) > Unit
    /\ SumWeights(row.findings, urgency_weights) > Unit
    /\ row.age < 0
    /\ pyOut.severity_score = Unit
    /\ pyOut.urgency_score = Unit
    /\ pyOut.risk_score = Unit

\* A string with no entry in the severity weights nor in the urgency weights
Unweighted(f) == f \notin DOMAIN severity_weights /\ f \notin DOMAIN urgency_weights

RemoveAt(seq, i) == SubSeq(seq, 1, i - 1) \o SubSeq(seq, i + 1, Len(seq))

UnweightedPositions(findings) == {i \in 1..Len(findings) : Unweighted(findings[i])}

\* C3 (as claimed): for every list of tracked conditions, every age and every
\* gender, the Dart functions return the same scores, age group and labels
\* as the Python scorer and classifier.
C3_RestatementAgrees ==
    (stage = "restated" /\ \A i \in 1..Len(row.findings) : row.findings[i] \in respiratory_priority)
        => dartOut = pyOut

\* The two agree on every age from 0 upwards; they part only below 0, where
\* _get_age_group falls through to 'adolescent' and _getAgeGroup says 'infant'.
RestatementAgreesFromAgeZero ==
    (stage = "restated" /\ row.age >= 0) => dartOut = pyOut

\* C8 (as claimed): adding a string that has no weight to the findings list
\* leaves severity, urgency and risk of the scorer exactly as they are for
\* the list without it.
C8_UnweightedStringChangesNothing ==
    pyOut # Nil =>
        \A i \in UnweightedPositions(row.findings) :
            LET without == PythonScorer(RemoveAt(row.findings, i), row.age, row.gender)
            IN  /\ pyOut.severity_score = without.severity_score
                /\ pyOut.urgency_score = without.urgency_score
                /\ pyOut.risk_score = without.risk_score

\* C8 (amended): such a string leaves the scorer's severity and urgency as
\* they are, and leaves severity, urgency and risk of the record as computed
\* by extract_advanced_features as they are, because the string is dropped
\* by the respiratory_priority filter before the scorer sees it.
C8_UnweightedStringIgnored ==
    /\ pyOut # Nil =>
        \A i \in UnweightedPositions(row.findings) :
            LET without == PythonScorer(RemoveAt(row.findings, i), row.age, row.gender)
            IN  /\ pyOut.severity_score = without.severity_score
                /\ pyOut.urgency_score = without.urgency_score
    /\ extracted # Nil =>
        \A i \in UnweightedPositions(row.findings) :
            LET without == extract_advanced_features(
                               [row EXCEPT !.findings = RemoveAt(row.findings, i)])
            IN  /\ extracted.severity_score = without.severity_score
                /\ extracted.urgency_score = without.urgency_score
                /\ extracted.risk_score = without.risk_score

\* one weighted finding plus one unweighted string: the raw list has two
\* entries, the filtered list one, and the risk is below the clamp
C8_Witness ==
    /\ extracted # Nil
    /\ Len(row.findings) = 2
    /\ UnweightedPositions(row.findings) # {}
    /\ Len(RespiratoryFindings(row.findings)) = 1
    /\ extracted.risk_score > 0
    /\ extracted.risk_score < Unit
    /\ pyOut.risk_score # extracted.risk_score

\* C4 (as claimed): for every symptom set, age and gender, the Dart
\* _assessEnhancedSeverity and _assessEnhancedUrgency return the severity and
\* urgency labels that prepare_enhanced_features assigns to the record.
C4_EnhancedRestatementAgrees ==
    enhDart # Nil =>
        /\ enhDart.severity = enhPy.severity
        /\ enhDart.urgency = enhPy.urgency

\* where the two do agree: records of children under 5
EnhancedAgreesUnderFive ==
    (enhDart # Nil /\ enhRow.age < 5) =>
        /\ enhDart.severity = enhPy.severity
        /\ enhDart.urgency = enhPy.urgency

\* C5 (as claimed): when the training of one label fails (raises or reports
\* failure), the training of the remaining labels of the run is still
\* carried out.
C5_LabelFailureIsolated ==
    trnStatus \in {"returned", "raised"} =>
        Range(trnDone) = Range(LabelsOfScript(trnScript))

\* what does hold: a label that reports failure by returning False, and any
\* failure inside the NIH trainer's train_*_model methods, aborts nothing
ReportedFailureIsolated ==
    (/\ trnStatus \in {"returned", "raised"}
     /\ \/ trnScript = "nih"
        \/ \A l \in DOMAIN trnFault : trnFault[l] # "raise")
        => Range(trnDone) = Range(LabelsOfScript(trnScript))

SparseClass(counts) == \E c \in Present(counts) : counts[c] < 2

\* C7 (as claimed): when a class has fewer than 2 members, so that a
\* stratified split is infeasible, training neither crashes nor fails the
\* label: the trainer falls back and still returns a model.
C7_SparseClassFallsBack ==
    (splResult # Nil /\ SparseClass(splCounts))
        => splResult.type \in {"model", "ml_model", "rule_based"}

\* what does hold: the Q&A trainer returns a model for every class
\* distribution; the NIH symptom trainer does so when the split is feasible
QATrainerAlwaysReturnsModel ==
    (splResult # Nil /\ splTrainer = "medical_qa")
        => splResult.type \in {"ml_model", "rule_based"}


\* run_all_training_modules has ended, by returning or by an uncaught exception
MasterRunAllEnded == orchScript = "master" /\ orchPc \in {"crashed", "finished"}

\* C6: a run of run_all_training_modules does not crash: when it has ended it
\* returned normally, every configured module was attempted (its script was
\* looked up and, when present, launched) and the summary report was written.
C6_RunAllAttemptsEveryModule ==
    MasterRunAllEnded =>
        /\ orchPc = "finished"
        /\ \A i \in 1..Len(MasterModules) :
              MasterModules[i] \in scripts => proc[MasterModules[i]] # "none"
        /\ summaryFile # Nil

\* a child goes from not running to running in this step
Launched(m) == proc[m] # "running" /\ proc'[m] = "running"

LaunchOnlyWhenNoneRunning ==
    \A m \in DOMAIN proc : Launched(m) => Running = {}

\* C9: in the master orchestrator, the robust executor and the simple executor
\* at most one training subprocess is running at any moment, and a subprocess
\* is launched only in a step that starts with no subprocess running.
C9_OneSubprocessAtATime ==
    [](Cardinality(Running) <= 1) /\ [][LaunchOnlyWhenNoneRunning]_vars

\* C9 witness: the robust executor has seen the cdc child exit and the voice
\* child is now running.
C9_Witness ==
    /\ orchScript = "robust"
    /\ ChildExited(proc["cdc"])
    /\ proc["voice"] = "running"

\* C10 as stated: the CDC child and the Medical Q&A child of
\* run_parallel_training are never running at the same time.
C10_JobsNeverOverlap ==
    ~(child["cdc"] = "running" /\ child["medical_qa"] = "running")

\* C10 amended: both threads are started before main waits for either, so the
\* two children can run at the same time; main passes the first join only
\* after the CDC child has exited and prints the summary only after both
\* children have exited.
C10_StartedTogetherJoinedInOrder ==
    /\ parPc \in {"join_cdc", "join_medical_qa", "done"} =>
          \A j \in ParJobs : thr[j] # "new"
    /\ parPc \in {"join_medical_qa", "done"} =>
          thr["cdc"] = "finished" /\ child["cdc"] \in {"exit0", "exit1"}
    /\ parPc = "done" =>
          \A j \in ParJobs : thr[j] = "finished" /\ child[j] \in {"exit0", "exit1"}

\* C10 witness: main waits in cdc_thread.join() while both children run.
C10_Witness ==
    /\ parPc = "join_cdc"
    /\ child["cdc"] = "running"
    /\ child["medical_qa"] = "running"


\* C11: every output file path has exactly one writing script, so that no
\* script ever overwrites a file another script produced; in particular
\* python/outputs/training_summary.json, python/training_progress.json and
\* python/training_results.json each have a single writer.
C11_EveryPathHasOneWriter ==
    \A p \in OutputPaths : Cardinality(diskWriters[p]) <= 1

\* paths that do keep a single writer: the summary of the cdc trainer when
\* it is started outside python/, and the results of the diseases-symptoms
\* trainer
SingleWriterPaths ==
    {cdc_summary_path(<<>>), cdc_summary_path(<<"python", "cdc_training">>),
     diseases_results_path}

UnsharedPathsHaveOneWriter ==
    \A p \in SingleWriterPaths : Cardinality(diskWriters[p]) <= 1


(***************************************************************************)
(* The scoring formulas written out as multiplier tables (in hundredths)   *)
(***************************************************************************)
Clamp(x) == IF x < Unit THEN x ELSE Unit

\* age <= 2: 1.3, age <= 5: 1.2, age <= 12: 1.1, else 1.0
age_multiplier(age) ==
    IF age <= 2 THEN 130 ELSE IF age <= 5 THEN 120 ELSE IF age <= 12 THEN 110 ELSE 100

\* gender == 'F' and age < 10: 1.05, else 1.0
gender_multiplier(gender, age) == IF gender = "F" /\ age < 10 THEN 105 ELSE 100

\* age <= 2: 1.4, age <= 5: 1.25, else 1.0
urgency_age_multiplier(age) ==
    IF age <= 2 THEN 140 ELSE IF age <= 5 THEN 125 ELSE 100

WeightOf(weights, finding) == IF finding \in DOMAIN weights THEN weights[finding] ELSE 0

\* sum of the weights of the first n entries of the list, one term per entry
RECURSIVE WeightsUpTo(_, _, _)
WeightsUpTo(findings, weights, n) ==
    IF n = 0 THEN 0
    ELSE WeightsUpTo(findings, weights, n - 1) + WeightOf(weights, findings[n])

SeveritySum(findings) == WeightsUpTo(findings, severity_weights, Len(findings))
UrgencySum(findings) == WeightsUpTo(findings, urgency_weights, Len(findings))

Scaled(x, hundredths) == (x * hundredths) \div 100

\* C12 (as claimed): for every findings list, age and gender the severity
\* score is clamp(sum of severity weights) * age_multiplier *
\* gender_multiplier with clamp(x) = min(x, 1): the sum is clamped, the
\* product is not.
C12_SeverityClampsTheSum ==
    pyOut # Nil =>
        pyOut.severity_score =
            Scaled(Scaled(Clamp(SeveritySum(row.findings)), age_multiplier(row.age)),
                   gender_multiplier(row.gender, row.age))

\* C12 (amended): the severity score is the sum of the severity weights of
\* the list entries, multiplied by the age multiplier and the gender
\* multiplier, and the product is clamped to 1.
C12_SeverityClampsTheProduct ==
    pyOut # Nil =>
        pyOut.severity_score =
            Clamp(Scaled(Scaled(SeveritySum(row.findings), age_multiplier(row.age)),
                         gender_multiplier(row.gender, row.age)))

\* C12 witness: a girl of at most two whose weights sum to at most 1 and
\* whose product with the multipliers exceeds 1: the score is 1.
C12_Witness ==
    /\ pyOut # Nil
    /\ row.gender = "F"
    /\ row.age <= 2
    /\ SeveritySum(row.findings) > 0
    /\ SeveritySum(row.findings) < Unit
    /\ pyOut.severity_score = Unit

RiskBlend(severity, urgency, n) ==
    Clamp(Scaled(Clamp((6 * severity + 4 * urgency) \div 10), IF n > 1 THEN 110 ELSE 100))

\* C13: for every findings list, age and gender the risk score is
\* clamp(clamp(0.6 * severity + 0.4 * urgency) * m), where severity and
\* urgency are the scorer's own outputs for the same input and m is 1.1 when
\* the list handed to the scorer has more than one entry and 1.0 otherwise.
C13_RiskIsClampedBlend ==
    /\ pyOut # Nil =>
          pyOut.risk_score =
              RiskBlend(pyOut.severity_score, pyOut.urgency_score, Len(row.findings))
    /\ extracted # Nil =>
          extracted.risk_score =
              RiskBlend(extracted.severity_score, extracted.urgency_score,
                        Len(RespiratoryFindings(row.findings)))

\* C13 witness: more than one entry, and a risk the bump raises without
\* reaching the clamp.
C13_Witness ==
    /\ extracted # Nil
    /\ Len(RespiratoryFindings(row.findings)) > 1
    /\ pyOut.risk_score > (6 * pyOut.severity_score + 4 * pyOut.urgency_score) \div 10
    /\ pyOut.risk_score < Unit

\* C14 (as claimed): the scorer uses one age-multiplier table: the urgency
\* score is computed with the age multiplier of the severity score (1.3 up
\* to age 2, 1.2 up to 5, 1.1 up to 12, 1.0 above).
C14_OneAgeMultiplierTable ==
    pyOut # Nil =>
        pyOut.urgency_score =
            Clamp(Scaled(UrgencySum(row.findings), age_multiplier(row.age)))

\* C14 (amended): the scorer uses two age-multiplier tables: the severity
\* score is multiplied by 1.3 up to age 2, 1.2 up to 5, 1.1 up to 12 and 1.0
\* above (C12), the urgency score by 1.4 up to age 2, 1.25 up to 5 and 1.0
\* above.
C14_UrgencyUsesItsOwnTable ==
    pyOut # Nil =>
        pyOut.urgency_score =
            Clamp(Scaled(UrgencySum(row.findings), urgency_age_multiplier(row.age)))

\* C14 witness: a child of six to twelve, or a younger one, whose urgency
\* score is below the clamp and differs from what the severity table gives.
C14_Witness ==
    /\ pyOut # Nil
    /\ row.age <= 12
    /\ pyOut.urgency_score > 0
    /\ pyOut.urgency_score < Unit
    /\ pyOut.urgency_score # Clamp(Scaled(UrgencySum(row.findings), age_multiplier(row.age)))

\* C16: a record with an empty condition list has severity score 0 and
\* urgency score 0, for every age and gender.
C16_EmptyListScoresZero ==
    /\ (pyOut # Nil /\ row.findings = <<>>) =>
          pyOut.severity_score = 0 /\ pyOut.urgency_score = 0
    /\ (extracted # Nil /\ RespiratoryFindings(row.findings) = <<>>) =>
          extracted.severity_score = 0 /\ extracted.urgency_score = 0

\* C16 witness: an empty list scored for a girl of at most two, the record
\* both multipliers apply to.
C16_Witness ==
    /\ extracted # Nil
    /\ row.findings = <<>>
    /\ row.gender = "F"
    /\ row.age <= 2
    /\ age_multiplier(row.age) > 100
    /\ gender_multiplier(row.gender, row.age) > 100

C19_PneumoniaAtTwoIsPoint91 ==
    (pyOut # Nil /\ row.findings = <<"Pneumonia">> /\ row.age = 2) =>
        pyOut.severity_score = 910000

\* C19 (amended): conditions exactly {Pneumonia} at age 2 give severity 0.91
\* for a gender other than 'F' and 0.7 * 1.3 * 1.05 = 0.9555 for gender 'F'.
C19_PneumoniaAtTwoByGender ==
    (pyOut # Nil /\ row.findings = <<"Pneumonia">> /\ row.age = 2) =>
        pyOut.severity_score = IF row.gender = "F" THEN 955500 ELSE 910000

\* C19 witness: the example scored for gender 'F'.
C19_Witness ==
    /\ pyOut # Nil
    /\ row.findings = <<"Pneumonia">>
    /\ row.age = 2
    /\ row.gender = "F"
    /\ pyOut.severity_score < Unit

\* the thresholds of _classify_severity and _classify_urgency in the order
\* the if/elif chain tests them, each with the label it returns
SeverityLadder(age_group) ==
    <<[at |-> severity_thresholds[age_group].critical, label |-> "critical"],
      [at |-> severity_thresholds[age_group].high, label |-> "high"],
      [at |-> 200000, label |-> "moderate"]>>

UrgencyLadder(age_group) ==
    <<[at |-> severity_thresholds[age_group].critical, label |-> "immediate"],
      [at |-> severity_thresholds[age_group].high, label |-> "urgent"],
      [at |-> 300000, label |-> "routine"]>>

HighestToLowest(ladder) ==
    \A i, j \in 1..Len(ladder) : i < j => ladder[i].at >= ladder[j].at

Met(score, ladder) == {i \in 1..Len(ladder) : score >= ladder[i].at}

FirstMet(score, ladder, otherwise) ==
    IF Met(score, ladder) = {} THEN otherwise
    ELSE ladder[CHOOSE i \in Met(score, ladder) : \A j \in Met(score, ladder) : i <= j].label

ClassifiedByLadder(score, label, ladder, otherwise) ==
    /\ HighestToLowest(ladder)
    /\ label = FirstMet(score, ladder, otherwise)
    /\ label = otherwise <=> \A i \in 1..Len(ladder) : score < ladder[i].at

\* C15: for every score and age group the threshold classifiers return the
\* label of the first threshold, tested from the highest to the lowest, that
\* the score meets or exceeds, and return the final catch-all label ("low"
\* for severity, "monitoring" for urgency) exactly when the score is below
\* every threshold.
C15_FirstThresholdMetWins ==
    labels # Nil =>
        /\ ClassifiedByLadder(pair.s1, labels.of1.severity,
                              SeverityLadder(pair.age_group), "low")
        /\ ClassifiedByLadder(pair.s2, labels.of2.severity,
                              SeverityLadder(pair.age_group), "low")
        /\ ClassifiedByLadder(pair.s1, labels.of1.urgency,
                              UrgencyLadder(pair.age_group), "monitoring")
        /\ ClassifiedByLadder(pair.s2, labels.of2.urgency,
                              UrgencyLadder(pair.age_group), "monitoring")

\* C15 witness: one score below every threshold, the other exactly on the
\* 'high' threshold of its age group and above the fixed ones.
C15_Witness ==
    /\ labels # Nil
    /\ pair.s1 < 200000
    /\ labels.of1.severity = "low"
    /\ labels.of1.urgency = "monitoring"
    /\ pair.s2 = severity_thresholds[pair.age_group].high
    /\ labels.of2.severity = "high"
    /\ labels.of2.urgency = "urgent"

\* the range each key of the continuous-learning trainer and of the NIH
\* statistics states
StatedRange ==
    ("0-2" :> <<0, 2>>) @@ ("3-5" :> <<3, 5>>) @@ ("6-12" :> <<6, 12>>) @@ ("13-17" :> <<13, 17>>)

Within(age, range) == range[1] <= age /\ age <= range[2]

PediatricAges == 0..17

\* every age from 0 to 17 lies in the range of exactly one group of the table
PartitionsPediatricAges(ranges) ==
    \A age \in PediatricAges :
        Cardinality({g \in DOMAIN ranges : Within(age, ranges[g])}) = 1

AdvancedFollowsRanges ==
    agAdvanced # Nil =>
        \A i \in 1..Len(agCases.ages) :
            agCases.ages[i] \in PediatricAges => Within(agCases.ages[i], age_groups[agAdvanced.groups[i]])

ContinuousFollowsRanges ==
    agContinuous # Nil =>
        \A i \in 1..Len(agCases.ages) :
            agCases.ages[i] \in PediatricAges => Within(agCases.ages[i], StatedRange[agContinuous.groups[i]])

StatisticsFollowRanges ==
    (agDistribution # Nil /\ \A i \in 1..Len(agCases.ages) : agCases.ages[i] \in PediatricAges) =>
        \A k \in AgeRangeKeys :
            agDistribution[k] =
                Cardinality({i \in 1..Len(agCases.ages) : Within(agCases.ages[i], StatedRange[k])})

\* C18 (as claimed): the age groups partition the ages 0 to 17, and each of
\* the three age-group functions (advanced pipeline, continuous-learning
\* trainer, NIH statistics) maps every integer age from 0 to 17 to the one
\* group whose stated range contains the age.
C18_AgeGroupsFollowStatedRanges ==
    /\ PartitionsPediatricAges(age_groups)
    /\ PartitionsPediatricAges(StatedRange)
    /\ AdvancedFollowsRanges
    /\ ContinuousFollowsRanges
    /\ StatisticsFollowRanges

\* what does hold: the advanced pipeline and the NIH statistics follow the
\* stated ranges
AdvancedAndStatisticsFollowRanges ==
    /\ PartitionsPediatricAges(age_groups)
    /\ PartitionsPediatricAges(StatedRange)
    /\ AdvancedFollowsRanges
    /\ StatisticsFollowRanges

\* the steps called so far are the first steps of the fixed order
CalledInOrder ==
    /\ Len(dsExecuted) <= Len(steps)
    /\ \A i \in 1..Len(dsExecuted) : dsExecuted[i] = steps[i]

\* the driver returns True exactly when all four steps were called and none
\* returned False or was interrupted
TrueIffAllSucceeded ==
    dsPc \in {"returned", "exited"} =>
        (dsReturn = "True" <=> (Len(dsExecuted) = Len(steps) /\ dsFailedAt = 0))

\* C20: the diseases-symptoms pipeline runs its steps in the fixed order
\* download, process, train, create Flutter integration; once a step has
\* failed or raised, no later step is executed; and run_complete_pipeline
\* returns True if and only if all four steps were executed and each
\* reported success.
C20_StepsInOrderStopAtFailure ==
    /\ [](CalledInOrder /\ TrueIffAllSucceeded)
    /\ [][dsFailedAt # 0 => dsExecuted' = dsExecuted]_vars

\* C20 witness: run_complete_pipeline has returned False after the second
\* step failed, with two steps called.
C20_Witness ==
    /\ dsDriver = "pipeline"
    /\ dsPc = "returned"
    /\ dsFailedAt = 2
    /\ dsExecuted = <<"Download Dataset", "Process Dataset">>
    /\ dsReturn = "False"

\* ---------------------------------------------------------------------------
\* Resuming, interrupting and watching the executors
\* ---------------------------------------------------------------------------

\* the robust executor is at or past the prompt of run_all_modules
RobustRunning ==
    orchScript = "robust" /\ orchPc \in {"prompt", "blocked", "loop", "waiting", "done"}

\* C21: a run of the robust executor started with --fresh starts with an empty
\* completed_modules list, whatever the progress file held, and at its end
\* has executed every module.
C21_FreshStartsEmptyAndRunsAll ==
    (RobustRunning /\ orchArg = "--fresh") =>
        /\ orchPc = "prompt" => progress.completed_modules = <<>>
        /\ orchPc = "done" => \A m \in scripts : ChildExited(proc[m])

\* the progress was loaded with completed modules and the prompt answered y
Resumed == orchScript = "robust" /\ orchLoaded # {} /\ orchAnswer = "y"

\* how often run_all_modules has dealt with module m
Occurrences(m) ==
    Cardinality({i \in DOMAIN results.completed : results.completed[i] = m})
        + Cardinality({i \in DOMAIN results.failed : results.failed[i] = m})

\* modules of the loaded completed_modules list are never started
CompletedNeverRunAgain == \A m \in orchLoaded : proc[m] = "none"

\* at the end of the run every other module has been attempted exactly once,
\* and its script, when there is one, has run to its end
OthersRunOnce ==
    orchPc = "done" =>
        \A m \in Range(RobustModules) :
            /\ Occurrences(m) = 1
            /\ (m \notin orchLoaded /\ m \in scripts) => ChildExited(proc[m])

\* a child is started only for a module that has not been started before
LaunchedOnce == \A m \in DOMAIN proc : Launched(m) => proc[m] = "none"

\* C22: in a resumed run of the robust executor no module of the loaded
\* completed_modules list is executed again, and every other module is
\* executed exactly once.
C22_ResumeSkipsCompletedRunsRestOnce ==
    /\ [](Resumed => (CompletedNeverRunAgain /\ OthersRunOnce))
    /\ [][Resumed => LaunchedOnce]_vars

\* C22 witness: a resumed run has ended; cdc was on the loaded list and was
\* not started, voice had failed before and treatment was pending, and both
\* were run.
C22_Witness ==
    /\ Resumed /\ orchPc = "done"
    /\ orchLoaded = {"cdc"} /\ proc["cdc"] = "none"
    /\ "voice" \in Range(progress.failed_modules)
    /\ proc["voice"] = "exit0" /\ proc["treatment"] = "exit1"

\* the signal handler has run: it alone clears is_running
Signalled == orchScript = "robust" /\ orchPc = "exited" /\ ~isRunning

\* modules whose training had finished successfully when the signal came: the
\* ones finished in this run and the loaded ones the run kept
FinishedSuccessfully ==
    {m \in DOMAIN proc : TrainReturnedTrue(proc[m])}
        \cup (IF orchAnswer = "n" THEN {} ELSE orchLoaded)

\* C23: after SIGINT or SIGTERM the progress file holds the progress, and its
\* completed_modules list is exactly the set of modules whose training had
\* finished successfully before the signal.
C23_SignalSavesExactlyTheFinished ==
    Signalled =>
        /\ progressFile = progress
        /\ Range(progressFile.completed_modules) = FinishedSuccessfully

\* C24: a background run never asks the user anything and ends only by
\* writing the final results (or through a signal), whatever progress file
\* it finds.
C24_BackgroundNeedsNoUser ==
    (orchScript = "robust" /\ orchArg = "background") =>
        /\ orchAnswer = "none"
        /\ orchPc # "blocked"
        /\ orchPc = "exited" => ~isRunning

\* module m is on record as trained successfully in this run
RecordedSuccessful(m) ==
    CASE orchScript = "master" ->
            /\ orchPc \in {"idle", "waiting", "summarised", "crashed"}
            /\ m \in DOMAIN results /\ results[m] = "success"
      [] orchScript = "robust" ->
            /\ orchPc # "start" /\ proc[m] # "none"
            /\ m \in Range(progress.completed_modules)
      [] orchScript = "simple" ->
            /\ orchPc \in {"loop", "waiting", "done"}
            /\ \E i \in DOMAIN results : results[i].module = m /\ results[i].success
      [] OTHER -> FALSE

\* C25: an orchestrator records a module as successful only if train() of
\* its trainer returned True; a trainer that stopped early for missing data
\* is not recorded as successful.
C25_SuccessOnlyIfTrainReturnedTrue ==
    \A m \in DOMAIN proc : RecordedSuccessful(m) => TrainReturnedTrue(proc[m])

\* the outcome the executor saw when the latest attempt at module m ended:
\* "completed", "failed", or "none" while no attempt has ended in this run
LatestOutcome(m) ==
    CASE orchScript = "robust" /\ orchPc \in {"loop", "waiting", "done"} ->
            IF m \in Range(results.failed) THEN "failed"
            ELSE IF m \in Range(results.completed) /\ proc[m] # "none" THEN "completed"
            ELSE "none"
      [] orchScript = "simple" /\ orchPc \in {"loop", "waiting", "done"} ->
            IF \E i \in DOMAIN results : results[i].module = m /\ results[i].success
            THEN "completed"
            ELSE IF \E i \in DOMAIN results : results[i].module = m THEN "failed"
            ELSE "none"
      [] OTHER -> "none"

\* C26: in the robust and the simple executor a module whose latest attempt
\* has ended is in exactly one of completed_modules and failed_modules, the
\* one that matches the outcome.
C26_ExactlyOneListPerOutcome ==
    \A m \in DOMAIN proc :
        /\ LatestOutcome(m) = "completed" =>
              /\ m \in Range(progress.completed_modules)
              /\ m \notin Range(progress.failed_modules)
        /\ LatestOutcome(m) = "failed" =>
              /\ m \in Range(progress.failed_modules)
              /\ m \notin Range(progress.completed_modules)

\* C27: when run_all_training_modules has ended the summary is written, and
\* in a written summary successful + failed + error equals total_modules.
C27_SummaryCountsAddUp ==
    /\ MasterRunAllEnded => summaryFile # Nil
    /\ summaryFile # Nil =>
          summaryFile.successful_modules + summaryFile.failed_modules
              + summaryFile.error_modules = summaryFile.total_modules

\* the run beside which the monitor runs has written its final results
ThisRunWroteResults == orchPc = "done"

\* C28: monitor_training and check_background_status report completion only
\* after the current run has written its final results.
C28_CompletionOnlyAfterThisRun ==
    (monReport.monitor = "completed" \/ monReport.status = "completed")
        => ThisRunWroteResults

\* the urgency label prepare_enhanced_features computed from record i
UrgencyOf(i) == LabelColumn(fitData.rows, "urgency")[i]

\* each row the urgency model is fitted on carries the label of its record
UrgencyFitAligned ==
    fitUrgency # Nil =>
        \A j \in DOMAIN fitUrgency.X : fitUrgency.y[j] = UrgencyOf(fitUrgency.X[j])

\* the urgency predictions for the validation rows are scored against the
\* urgency labels of the validation records
UrgencyScoredOnUrgency ==
    fitUrgencyVal # Nil =>
        \A j \in DOMAIN fitUrgencyVal.val_X :
            fitUrgencyVal.val_truth[j] = UrgencyOf(fitUrgencyVal.val_X[j])

\* C29: in train_enhanced_models every feature row used to fit the urgency
\* model is paired with the urgency label of the same record, and the
\* urgency model's validation accuracy is computed against the urgency
\* labels of the validation records.
C29_UrgencyLabelsFollowTheirRows == UrgencyFitAligned /\ UrgencyScoredOnUrgency

====
